---- MODULE Spec2Model ----
(***************************************************************************)
(* Model of the DataAgent orchestration core: PlanBuilder (plan_builder.py)*)
(* Actor (actor.py, observation.py), MerkleLog (merkle_log.py),            *)
(* AuditTracer (tracer.py), RecipeStore (recipe_store.py),                 *)
(* SchemaFingerprinter (schema_fingerprint.py), SQLPolicyChecker           *)
(* (policy.py), SandboxExecutor (sandbox.py) and DataAgent.analyze         *)
(* (agent.py).                                                             *)
(*                                                                         *)
(* Text is modelled as a sequence of pieces (words, blanks, punctuation);  *)
(* a text is cut into pieces so that every keyword the code searches for   *)
(* is one piece, which makes Python's `kw in text.lower()` a search for a  *)
(* piece whose lower-case form is kw.                                      *)
(***************************************************************************)
EXTENDS Integers, Sequences, FiniteSets, TLC

VARIABLES
    \* ---- PlanBuilder calls (build_plan, add_step)
    operations,         \* the operation list handed to build_plan
    constraints,        \* the constraint list handed to build_plan
    plan,               \* the Plan last returned, NoPlan when none was
    plan_error,         \* the ValueError raised by the last call, "none" if none
    last_call,          \* "none", "build_plan" or "add_step"
    uuid_count,         \* uuid4 values drawn so far by add_step
    \* ---- Actor
    tool_registry,      \* Actor.tool_registry: the tool names it holds
    execution_history,  \* Actor.execution_history
    tool_call,          \* the ToolCall of the last execute_with_repair call
    max_retries,        \* its max_retries argument (NoneArg when left out)
    tool_script,        \* what the tool does at its 1st, 2nd, ... invocation
    returned,           \* the Observation the call returned
    invocations,        \* the tool invocations the call made
    calls_made,         \* execute_with_repair calls made on this Actor
    \* ---- MerkleLog
    log_file,           \* the entries of the JSONL file, as a reader parses them
    last_hash,          \* _last_hash of each MerkleLog instance
    clock,              \* the reading of datetime.utcnow()
    tampering,          \* the change made to the stored file behind the log's back
    verify_result,      \* what the last verify_chain call returned
    opened_at,          \* per instance: entries in the file when it was opened, -1 before
    \* ---- DataAgent
    intent_parser,      \* "IntentParser" when built with an API key, else "None"
    pc,                 \* where the analyze call is: idle, loop, done
    request,            \* the AnalysisRequest being analyzed
    step_index,         \* position of the step loop in plan.steps (from 1)
    execution_context,  \* analyze's execution_context
    failed_steps,       \* analyze's failed_steps
    artifacts,          \* analyze's artifacts
    response,           \* the AnalysisResponse returned
    executed,           \* step ids execute_step was called with, in call order
    tool_invocations,   \* the tool calls the registry's functions received
    \* ---- RecipeStore
    recipe_store,       \* the rows of the recipes table, in rowid order
    retrieved,          \* the last retrieve_recipes call on the table as it is now
    \* ---- SchemaFingerprinter
    schemas,            \* the two schemas handed to compute_fingerprint
    fingerprints,       \* what the two calls returned, <<>> before them
    \* ---- SQLPolicyChecker
    sql_query,          \* the query handed to check_query
    policy_result,      \* the PolicyResult returned, NoPolicyResult before the call
    \* ---- SandboxExecutor (times in tenths of a second)
    sandbox_quota,      \* quota.max_execution_seconds
    func,               \* the wrapped function: how long it runs and how it ends
    sandbox_pc,         \* idle, running (in func), sampling (cpu_percent), returned
    elapsed,            \* time since execute_in_sandbox was entered
    alarm_at,           \* when the pending SIGALRM is due, 0 when none is pending
    sandbox_result,     \* the SandboxResult, as built so far
    \* ---- concurrent update_success_count calls on one recipes database
    db_lock,            \* the caller whose connection holds the write lock, 0 if none
    connections,        \* per caller: where its call is and what its connection holds
    commits,            \* transactions committed so far
    \* ---- AuditTracer seen by the requests that write to it
    written_for,        \* per line of the log, the request whose handling wrote it
    trace_pc,           \* per request id: new, running (request logged), done
    request_trace       \* what get_request_trace returned, NoTrace before the call

plannerVars == <<operations, constraints, plan, plan_error, last_call, uuid_count>>

actorVars == <<tool_registry, execution_history, tool_call, max_retries,
               tool_script, returned, invocations, calls_made>>

logVars == <<log_file, last_hash, clock, tampering, verify_result, opened_at>>

analyzeVars == <<intent_parser, pc, request, step_index, execution_context,
                 failed_steps, artifacts, response, executed, tool_invocations>>

recipeVars == <<recipe_store, retrieved>>

fingerprintVars == <<schemas, fingerprints>>

\* What DataAgent.analyze never touches.
policyVars == <<sql_query, policy_result>>

sandboxVars == <<sandbox_quota, func, sandbox_pc, elapsed, alarm_at, sandbox_result>>

connectionVars == <<db_lock, connections, commits>>

traceVars == <<written_for, trace_pc, request_trace>>

libraryVars == <<fingerprintVars, policyVars, sandboxVars, connectionVars, traceVars>>

vars == <<plannerVars, actorVars, logVars, analyzeVars, recipeVars, libraryVars>>

-----------------------------------------------------------------------------
(* Bounds of the model.                                                    *)

MaxDeps == 2            \* longest dependency list of an operation
MaxLegacyOps == 3       \* longest plain-string operation list
MaxAddSteps == 2        \* add_step calls applied to one plan
MaxRetriesArg == 2      \* largest max_retries a caller passes explicitly
MaxCalls == 2           \* execute_with_repair calls on one Actor
MaxStepCalls == 3       \* execute_step calls on one Actor
MaxAppends == 3         \* entries appended to one log
MaxRecipes == 2         \* recipes saved in one store
MaxReuses == 1          \* update_success_count calls on one store
MaxWriters == 3         \* callers of update_success_count at the same time
MaxObservations == 2    \* observation entries written for one request
MaxTopK == 2            \* largest top_k of a retrieval
MaxColumns == 2         \* most columns of a schema
MaxQueryLen == 4        \* most pieces of a query built from QueryPieces
MaxQuotaTenths == 15    \* largest max_execution_seconds, in tenths of a second
MaxRuntimeTenths == 20  \* longest run of a wrapped function, in tenths of a second

-----------------------------------------------------------------------------
(* Text.                                                                   *)

\* str.lower() on one piece.
Lower(p) ==
    CASE p = "Query" -> "query"
      [] p = "Filter" -> "filter"
      [] p = "Aggregate" -> "aggregate"
      [] p = "Create" -> "create"
      [] p = "Transform" -> "transform"
      [] p = "Generate" -> "generate"
      [] p = "SELECT" -> "select"
      [] p = "FROM" -> "from"
      [] p = "DROP" -> "drop"
      [] p = "TABLE" -> "table"
      [] p = "Drop" -> "drop"
      [] p = "Int64" -> "int64"
      [] p = "Connection" -> "connection"
      [] p = "Timeout" -> "timeout"
      [] p = "Error" -> "error"
      [] p = "Value" -> "value"
      [] p = "Invalid" -> "invalid"
      [] p = "Rate" -> "rate"
      [] p = "Exception" -> "exception"
      [] OTHER -> p

\* str.lower() on a text.
LowerText(t) == [i \in DOMAIN t |-> Lower(t[i])]

\* `kw in text` for a text already lower-cased.
Contains(t, kw) == \E i \in DOMAIN t : t[i] = kw

\* any(kw in text for kw in kws)
ContainsAny(t, kws) == \E kw \in kws : Contains(t, kw)

\* `pattern in text` for a pattern of several pieces ("rate limit").
ContainsSeq(t, pattern) ==
    \E i \in 1..(Len(t) - Len(pattern) + 1) :
        SubSeq(t, i, i + Len(pattern) - 1) = pattern

-----------------------------------------------------------------------------
(* PlanBuilder.                                                            *)

NoPlan == [steps |-> <<>>, total_cost |-> -1, none |-> TRUE]

SQL_RUNNER == "sql_runner"
DF_OPERATIONS == "df_operations"
PLOTTER == "plotter"
PROFILER == "profiler"
ToolType == {SQL_RUNNER, DF_OPERATIONS, PLOTTER, PROFILER}

\* TOOL_COSTS, in half seconds (2.0, 1.0, 1.5, 0.5).
TOOL_COSTS ==
    [t \in ToolType |->
        CASE t = SQL_RUNNER -> 4
          [] t = DF_OPERATIONS -> 2
          [] t = PLOTTER -> 3
          [] t = PROFILER -> 1]

_select_tool(operation) ==
    LET operation_lower == LowerText(operation) IN
    IF ContainsAny(operation_lower, {"query", "select", "fetch", "sql"})
    THEN SQL_RUNNER
    ELSE IF ContainsAny(operation_lower, {"plot", "chart", "visualize", "graph"})
    THEN PLOTTER
    ELSE IF ContainsAny(operation_lower, {"profile", "schema", "discover"})
    THEN PROFILER
    ELSE DF_OPERATIONS

\* The constraints kept as invariants: those mentioning "row" or "limit".
RECURSIVE RowLimitConstraints(_)
RowLimitConstraints(cs) ==
    IF cs = <<>> THEN <<>>
    ELSE LET c == Head(cs) IN
         IF Contains(LowerText(c), "row") \/ Contains(LowerText(c), "limit")
         THEN <<c>> \o RowLimitConstraints(Tail(cs))
         ELSE RowLimitConstraints(Tail(cs))

FILTER_BEFORE_AGGREGATE == <<"filter_before_aggregate">>

_extract_invariants(operation, cs) ==
    (IF Contains(LowerText(operation), "filter") \/ Contains(LowerText(operation), "where")
     THEN <<FILTER_BEFORE_AGGREGATE>>
     ELSE <<>>)
    \o RowLimitConstraints(cs)

PlanStep(step_id, operation, tool, dependencies, estimated_cost, invariants) ==
    [step_id |-> step_id, operation |-> operation, tool |-> tool,
     dependencies |-> dependencies, estimated_cost |-> estimated_cost,
     invariants |-> invariants]

\* {step.step_id for step in steps}
StepIds(steps) == {steps[i].step_id : i \in DOMAIN steps}

\* adj = {step.step_id: step.dependencies for step in steps}: a later step
\* with the same id replaces an earlier one.
Adj(steps) ==
    [id \in StepIds(steps) |->
        LET last == CHOOSE i \in DOMAIN steps :
                        /\ steps[i].step_id = id
                        /\ \A j \in DOMAIN steps : steps[j].step_id = id => j <= i
        IN steps[last].dependencies]

\* adj.get(node, [])
AdjGet(adj, node) == IF node \in DOMAIN adj THEN adj[node] ELSE <<>>

\* The depth-first search of _has_cycle: dfs(node) with the visited and
\* rec_stack sets it shares with its caller, returned with its answer.
RECURSIVE dfs(_, _, _, _)
RECURSIVE dfs_neighbors(_, _, _, _, _)
dfs_neighbors(adj, node, neighbors, visited, rec_stack) ==
    IF neighbors = <<>>
    THEN [cycle |-> FALSE, visited |-> visited, rec_stack |-> rec_stack \ {node}]
    ELSE LET neighbor == Head(neighbors) IN
         IF neighbor \notin visited
         THEN LET r == dfs(adj, neighbor, visited, rec_stack) IN
              IF r.cycle THEN r
              ELSE dfs_neighbors(adj, node, Tail(neighbors), r.visited, r.rec_stack)
         ELSE IF neighbor \in rec_stack
         THEN [cycle |-> TRUE, visited |-> visited, rec_stack |-> rec_stack]
         ELSE dfs_neighbors(adj, node, Tail(neighbors), visited, rec_stack)

dfs(adj, node, visited, rec_stack) ==
    dfs_neighbors(adj, node, AdjGet(adj, node),
                  visited \cup {node}, rec_stack \cup {node})

RECURSIVE has_cycle_from(_, _, _, _)
has_cycle_from(adj, steps, i, visited) ==
    IF i > Len(steps) THEN FALSE
    ELSE IF steps[i].step_id \in visited
    THEN has_cycle_from(adj, steps, i + 1, visited)
    ELSE LET r == dfs(adj, steps[i].step_id, visited, {}) IN
         IF r.cycle THEN TRUE
         ELSE has_cycle_from(adj, steps, i + 1, r.visited)

\* A cycle check that only sees a step naming itself.
_has_cycle_self_only(steps) ==
    \E i \in DOMAIN steps : \E k \in DOMAIN steps[i].dependencies :
        steps[i].dependencies[k] = steps[i].step_id

_has_cycle(steps) == has_cycle_from(Adj(steps), steps, 1, {})

\* A validation that checks the references and forgets the cycles.
_validate_dag_references_only(steps) ==
    IF \E i \in DOMAIN steps : \E k \in DOMAIN steps[i].dependencies :
            steps[i].dependencies[k] \notin StepIds(steps)
    THEN "invalid_dependency"
    ELSE "none"

\* _validate_dag: the error it raises, "none" when it returns.
_validate_dag(steps) ==
    IF \E i \in DOMAIN steps : \E k \in DOMAIN steps[i].dependencies :
            steps[i].dependencies[k] \notin StepIds(steps)
    THEN "invalid_dependency"
    ELSE IF _has_cycle(steps) THEN "cycle"
    ELSE "none"

\* sum(step.estimated_cost for step in steps)
RECURSIVE SumCost(_)
SumCost(steps) ==
    IF steps = <<>> THEN 0 ELSE Head(steps).estimated_cost + SumCost(Tail(steps))

\* An Operation of the intent parser.
Operation(id, description, dependencies) ==
    [kind |-> "Operation", id |-> id, description |-> description,
     dependencies |-> dependencies]

\* A plain string of a legacy operation list.
Str(text) == [kind |-> "str", text |-> text]

\* isinstance(operations[0], Operation)
IsOperation(op) == op.kind = "Operation"

\* step_id = f"{plan_id[:8]}-{op.id}"; one plan_id per build_plan call.
OperationStepId(op_id) == "plan-" \o op_id

\* step_id = f"{plan_id[:8]}-step-{i}", i counted from 0.
LegacyStepId(i) == "plan-step-" \o ToString(i)

\* Pass 1 of build_plan: one step per operation, no dependencies.
Pass1(ops, cs) ==
    [i \in DOMAIN ops |->
        LET tool == _select_tool(ops[i].description) IN
        PlanStep(OperationStepId(ops[i].id), ops[i].description, tool, <<>>,
                 TOOL_COSTS[tool], _extract_invariants(ops[i].description, cs))]

\* step_index = {op.id: step}: the position in steps of the step an operation
\* id names (the last one created for it).
StepIndex(ops) ==
    [id \in {ops[i].id : i \in DOMAIN ops} |->
        CHOOSE i \in DOMAIN ops :
            /\ ops[i].id = id
            /\ \A j \in DOMAIN ops : ops[j].id = id => j <= i]

\* resolved_deps of one operation.
ResolvedDeps(ops, deps) ==
    [k \in DOMAIN deps |-> OperationStepId(ops[StepIndex(ops)[deps[k]]].id)]

\* Pass 2 of build_plan: the operations are walked in order and each sets the
\* dependencies of step_index[op.id]; an unknown dependency id raises.
RECURSIVE Pass2(_, _, _)
Pass2(ops, steps, i) ==
    IF i > Len(ops) THEN [error |-> "none", steps |-> steps]
    ELSE LET op == ops[i]
             target == StepIndex(ops)[op.id]
         IN IF \E k \in DOMAIN op.dependencies :
                    op.dependencies[k] \notin DOMAIN StepIndex(ops)
            THEN [error |-> "invalid_reference", steps |-> steps]
            ELSE Pass2(ops,
                       [steps EXCEPT ![target].dependencies =
                            ResolvedDeps(ops, op.dependencies)],
                       i + 1)

\* The else branch of build_plan: a linear chain over plain strings.
LegacySteps(ops, cs) ==
    [i \in DOMAIN ops |->
        LET tool == _select_tool(ops[i].text) IN
        PlanStep(LegacyStepId(i - 1), ops[i].text, tool,
                 IF i > 1 THEN <<LegacyStepId(i - 2)>> ELSE <<>>,
                 TOOL_COSTS[tool], _extract_invariants(ops[i].text, cs))]

Plan(steps, total_cost) == [steps |-> steps, total_cost |-> total_cost, none |-> FALSE]

\* build_plan: [error, plan]; plan is NoPlan when it raises.
build_plan(ops, cs) ==
    LET built == IF ops # <<>> /\ IsOperation(ops[1])
                 THEN Pass2(ops, Pass1(ops, cs), 1)
                 ELSE [error |-> "none", steps |-> LegacySteps(ops, cs)]
        dag == IF built.error = "none" THEN _validate_dag(built.steps) ELSE built.error
    IN IF dag = "none"
       THEN [error |-> "none", plan |-> Plan(built.steps, SumCost(built.steps))]
       ELSE [error |-> dag, plan |-> NoPlan]

\* str(uuid.uuid4()): the n-th value drawn; no two are equal and none is an
\* id the caller could have named beforehand.
Uuid4(n) == "uuid-" \o ToString(n)

\* add_step returning the new plan with the total_cost of the old one.
add_step_cost_not_added(p, operation, dependencies, cs, uuid) ==
    LET tool == _select_tool(operation)
        new_step == PlanStep(uuid, operation, tool, dependencies, TOOL_COSTS[tool],
                             _extract_invariants(operation, cs))
        updated_steps == p.steps \o <<new_step>>
        dag == _validate_dag(updated_steps)
    IN IF dag = "none"
       THEN [error |-> "none", plan |-> Plan(updated_steps, p.total_cost)]
       ELSE [error |-> dag, plan |-> NoPlan]

\* add_step: [error, plan]; the plan passed in is left as it was.
add_step(p, operation, dependencies, cs, uuid) ==
    LET tool == _select_tool(operation)
        cost == TOOL_COSTS[tool]
        new_step == PlanStep(uuid, operation, tool, dependencies, cost,
                             _extract_invariants(operation, cs))
        updated_steps == p.steps \o <<new_step>>
        dag == _validate_dag(updated_steps)
    IN IF dag = "none"
       THEN [error |-> "none", plan |-> Plan(updated_steps, p.total_cost + cost)]
       ELSE [error |-> dag, plan |-> NoPlan]

-----------------------------------------------------------------------------
(* Observation (observation.py).                                           *)

SUCCESS == "success"
FAILURE == "failure"
PARTIAL == "partial"

\* None where a text is expected.
NoText == <<>>

\* None where a tool result is expected.
NoResult == [kind |-> "None"]

Observation(step_id, status, result, error_message, retry_count, metadata) ==
    [step_id |-> step_id, status |-> status, result |-> result,
     error_message |-> error_message, retry_count |-> retry_count,
     metadata |-> metadata]

\* What stands for an Observation where none was returned.
NoObservation == Observation("", "none", NoResult, NoText, -1, {})

is_success(obs) == obs.status = SUCCESS

recoverable_patterns ==
    {<<"timeout">>, <<"connection">>, <<"temporary">>,
     <<"rate", " ", "limit">>, <<"retry">>}

is_recoverable(obs) ==
    IF obs.status # FAILURE THEN FALSE
    ELSE IF obs.error_message # NoText
    THEN \E pattern \in recoverable_patterns :
            ContainsSeq(LowerText(obs.error_message), pattern)
    ELSE FALSE

-----------------------------------------------------------------------------
(* Actor (actor.py).                                                       *)

MAX_RETRIES == 3

\* max_retries left out by the caller (None).
NoneArg == -1

ToolCall(tool_name, arguments, step_id) ==
    [tool_name |-> tool_name, arguments |-> arguments, step_id |-> step_id]

NoToolCall == ToolCall("", <<>>, "")

\* What one invocation of a tool does: it returns a result or raises.
Return(result) == [kind |-> "return", result |-> result]
Raise(type, text) == [kind |-> "raise", type |-> type, text |-> text]

\* Results: a DataFrame (it has shape and columns) or a plain value; a result
\* that has a shape has a two-dimensional one, as the tools' DataFrames do.
DataFrame(rows, cols) == [kind |-> "DataFrame", rows |-> rows, cols |-> cols]
PlainResult == [kind |-> "dict"]

\* _extract_metadata: the keys it sets (hasattr(result, "shape"/"columns")).
_extract_metadata(result) ==
    IF result.kind = "DataFrame"
    THEN {<<"row_count", result.rows>>, <<"column_count", result.cols>>,
          <<"columns", result.cols>>}
    ELSE {}

\* metadata.get(key)
MetadataGet(metadata, key) ==
    IF \E kv \in metadata : kv[1] = key
    THEN (CHOOSE kv \in metadata : kv[1] = key)[2]
    ELSE "None"

\* f"{type(e).__name__}: {str(e)}"
ErrorMessage(e) == e.type \o <<":", " ">> \o e.text

\* f"Max retries ({max_retries}) exceeded. Last error: {last_error}"
MaxRetriesMessage(n, e) ==
    <<"Max retries (", ToString(n), ") exceeded. Last error: ">> \o e.text

\* f"Non-recoverable error: {error_message}"
NonRecoverableMessage(error_message) == <<"Non-recoverable error: ">> \o error_message

\* What the tool does at its n-th invocation during one call: the script's
\* n-th entry; asked more often than the script is long, it goes on as at
\* the last entry.
InvocationOutcome(script, n) ==
    IF n <= Len(script) THEN script[n] ELSE script[Len(script)]

\* The loop with the classification left out of its retry test: it retries
\* whatever failed while attempts remain.
RECURSIVE repair_loop_retry_all(_, _, _, _, _)
repair_loop_retry_all(tc, retries, script, history, attempt) ==
    IF attempt >= retries + 1
    THEN [observation |-> NoObservation, history |-> history, invocations |-> attempt]
    ELSE LET outcome == InvocationOutcome(script, attempt + 1) IN
         IF outcome.kind = "return"
         THEN LET observation ==
                      Observation(tc.step_id, SUCCESS, outcome.result, NoText,
                                  attempt, _extract_metadata(outcome.result))
              IN [observation |-> observation,
                  history |-> Append(history, observation),
                  invocations |-> attempt + 1]
         ELSE LET error_message == ErrorMessage(outcome)
                  observation ==
                      Observation(tc.step_id, FAILURE, NoResult, error_message,
                                  attempt, {})
              IN IF attempt < retries
                 THEN repair_loop_retry_all(tc, retries, script, history, attempt + 1)
                 ELSE LET final_error_message ==
                              IF ~is_recoverable(observation)
                              THEN NonRecoverableMessage(error_message)
                              ELSE MaxRetriesMessage(retries, outcome)
                          final_observation ==
                              Observation(tc.step_id, FAILURE, NoResult,
                                          final_error_message, attempt, {})
                      IN [observation |-> final_observation,
                          history |-> Append(history, final_observation),
                          invocations |-> attempt + 1]

\* The loop of execute_with_repair from `attempt` on; range(max_retries + 1)
\* ends it. [observation, history, invocations]; the observation is
\* NoObservation when the loop ends without a return.
RECURSIVE repair_loop(_, _, _, _, _)
repair_loop(tc, retries, script, history, attempt) ==
    IF attempt >= retries + 1
    THEN [observation |-> NoObservation, history |-> history, invocations |-> attempt]
    ELSE LET outcome == InvocationOutcome(script, attempt + 1) IN
         IF outcome.kind = "return"
         THEN LET observation ==
                      Observation(tc.step_id, SUCCESS, outcome.result, NoText,
                                  attempt, _extract_metadata(outcome.result))
              IN [observation |-> observation,
                  history |-> Append(history, observation),
                  invocations |-> attempt + 1]
         ELSE LET error_message == ErrorMessage(outcome)
                  observation ==
                      Observation(tc.step_id, FAILURE, NoResult, error_message,
                                  attempt, {})
              IN IF attempt < retries /\ is_recoverable(observation)
                 THEN repair_loop(tc, retries, script, history, attempt + 1)
                 ELSE LET final_error_message ==
                              IF ~is_recoverable(observation)
                              THEN NonRecoverableMessage(error_message)
                              ELSE MaxRetriesMessage(retries, outcome)
                          final_observation ==
                              Observation(tc.step_id, FAILURE, NoResult,
                                          final_error_message, attempt, {})
                      IN [observation |-> final_observation,
                          history |-> Append(history, final_observation),
                          invocations |-> attempt + 1]

\* execute_with_repair looping over range(max_retries): one attempt short.
execute_with_repair_one_short(tc, retries_arg, script, history) ==
    LET retries == IF retries_arg # NoneArg THEN retries_arg ELSE MAX_RETRIES
    IN repair_loop(tc, retries - 1, script, history, 0)

\* execute_with_repair with `max_retries or self.MAX_RETRIES`: a 0 passed by
\* the caller counts as left out.
execute_with_repair_falsy_default(tc, retries_arg, script, history) ==
    LET retries == IF retries_arg # NoneArg /\ retries_arg # 0
                   THEN retries_arg ELSE MAX_RETRIES
    IN repair_loop(tc, retries, script, history, 0)

\* execute_with_repair appending the Observation of every attempt, the
\* retried ones included.
execute_with_repair_logs_every_attempt(tc, retries_arg, script, history) ==
    LET retries == IF retries_arg # NoneArg THEN retries_arg ELSE MAX_RETRIES
        r == repair_loop(tc, retries, script, history, 0)
        attempts == [k \in 1..r.invocations |->
                        IF k < r.invocations
                        THEN Observation(tc.step_id, FAILURE, NoResult,
                                         ErrorMessage(InvocationOutcome(script, k)),
                                         k - 1, {})
                        ELSE r.observation]
    IN [r EXCEPT !.history = history \o attempts]

\* execute_with_repair without the append of its success branch.
execute_with_repair_success_unlogged(tc, retries_arg, script, history) ==
    LET retries == IF retries_arg # NoneArg THEN retries_arg ELSE MAX_RETRIES
        r == repair_loop(tc, retries, script, history, 0)
    IN IF is_success(r.observation) THEN [r EXCEPT !.history = history] ELSE r

\* execute_with_repair(tool_call, max_retries): the tool's invocations are
\* answered by `script`, one entry per invocation.
execute_with_repair(tc, retries_arg, script, history) ==
    LET retries == IF retries_arg # NoneArg THEN retries_arg ELSE MAX_RETRIES
    IN repair_loop(tc, retries, script, history, 0)

\* dict.get(key) on tool arguments; "None" when the key is absent.
ArgGet(arguments, key) ==
    IF \E kv \in arguments : kv[1] = key
    THEN (CHOOSE kv \in arguments : kv[1] = key)[2]
    ELSE "None"

\* int(text): the integer a piece spells, -1 for the ValueError.
IntValue(p) ==
    CASE p = "500" -> 500
      [] p = "10000" -> 10000
      [] OTHER -> -1

\* text.strip() on pieces: blanks off both ends.
RECURSIVE LStrip(_)
LStrip(t) == IF t # <<>> /\ Head(t) = " " THEN LStrip(Tail(t)) ELSE t

RECURSIVE RStrip(_, _)
RStrip(t, chars) ==
    IF t # <<>> /\ t[Len(t)] \in chars THEN RStrip(SubSeq(t, 1, Len(t) - 1), chars) ELSE t

Strip(t) == RStrip(LStrip(t), {" "})

\* The value of arguments["limit"] after the loop over step.invariants: the
\* last invariant that mentions "limit", splits at "=" in two and has an
\* integer on the right; -1 when none does.
RECURSIVE LimitFromInvariants(_, _)
LimitFromInvariants(invariants, limit) ==
    IF invariants = <<>> THEN limit
    ELSE LET invariant == Head(invariants)
             eqs == {i \in DOMAIN invariant : invariant[i] = "="}
             right == IF Cardinality(eqs) = 1
                      THEN Strip(SubSeq(invariant, (CHOOSE i \in eqs : TRUE) + 1,
                                        Len(invariant)))
                      ELSE <<>>
             parsed == IF Len(right) = 1 THEN IntValue(right[1]) ELSE -1
         IN IF /\ (\/ ContainsSeq(LowerText(invariant), <<"row", "_", "limit">>)
                   \/ Contains(LowerText(invariant), "limit"))
               /\ parsed # -1
            THEN LimitFromInvariants(Tail(invariants), parsed)
            ELSE LimitFromInvariants(Tail(invariants), limit)

\* _extract_sql_arguments; analyze's context holds step results only and
\* the Actor is built without a schema context.
_extract_sql_arguments(step) == {<<"query", step.operation>>}

_extract_df_arguments(step) ==
    LET operation_lower == LowerText(step.operation) IN
    {<<"operation", step.operation>>} \cup
    (IF Contains(operation_lower, "filter") \/ Contains(operation_lower, "where")
     THEN {<<"operation_type", "filter">>}
     ELSE IF Contains(operation_lower, "group") \/ Contains(operation_lower, "aggregate")
     THEN {<<"operation_type", "aggregate">>}
     ELSE IF Contains(operation_lower, "sort")
     THEN {<<"operation_type", "sort">>}
     ELSE IF Contains(operation_lower, "join")
     THEN {<<"operation_type", "join">>}
     ELSE {})

_extract_plot_arguments(step) ==
    LET operation_lower == LowerText(step.operation) IN
    {<<"title", step.operation>>,
     <<"chart_type",
       IF Contains(operation_lower, "bar") THEN "bar"
       ELSE IF Contains(operation_lower, "line") THEN "line"
       ELSE IF Contains(operation_lower, "scatter") THEN "scatter"
       ELSE IF Contains(operation_lower, "pie") THEN "pie"
       ELSE "bar">>}

_extract_profiler_arguments(step) == {}

_extract_arguments(step) ==
    LET arguments ==
            CASE step.tool = SQL_RUNNER -> _extract_sql_arguments(step)
              [] step.tool = DF_OPERATIONS -> _extract_df_arguments(step)
              [] step.tool = PLOTTER -> _extract_plot_arguments(step)
              [] step.tool = PROFILER -> _extract_profiler_arguments(step)
              [] OTHER -> {}
        limit == LimitFromInvariants(step.invariants, -1)
    IN IF limit # -1 THEN arguments \cup {<<"limit", limit>>} ELSE arguments

\* _has_prior_filter: a dependency whose Observation in the history carries
\* metadata operation_type = "filter" (the last Observation of a step id is
\* the one history_map keeps).
_has_prior_filter(step, history) ==
    \E d \in DOMAIN step.dependencies :
        \E k \in DOMAIN history :
            /\ history[k].step_id = step.dependencies[d]
            /\ \A l \in (k + 1)..Len(history) : history[l].step_id # history[k].step_id
            /\ MetadataGet(history[k].metadata, "operation_type") = "filter"

\* _validate_invariants with the filter_before_aggregate check left out.
_validate_invariants_never_raises(step, arguments, history) == FALSE

\* _validate_invariants: TRUE when it raises ValueError.
_validate_invariants(step, arguments, history) ==
    \E i \in DOMAIN step.invariants :
        /\ Contains(step.invariants[i], "filter_before_aggregate")
        /\ ArgGet(arguments, "operation_type") = "aggregate"
        /\ ~_has_prior_filter(step, history)

\* ground_step: [raised, error, tool_call].
ground_step(step, registry, history) ==
    LET tool_name == step.tool
        arguments == _extract_arguments(step)
    IN IF tool_name \notin registry
       THEN [raised |-> TRUE, tool_call |-> NoToolCall,
             error |-> <<"Value", "Error", ":", " ", "Tool '", tool_name,
                         "' not found in registry">>]
       ELSE IF _validate_invariants(step, arguments, history)
       THEN [raised |-> TRUE, tool_call |-> NoToolCall,
             error |-> <<"Value", "Error", ":", " ", "Invariant violation: ",
                         "filter_before_aggregate", " not satisfied">>]
       ELSE [raised |-> FALSE, error |-> NoText,
             tool_call |-> ToolCall(tool_name, arguments, step.step_id)]

\* execute_step without its try/except: what grounding raises leaves it.
execute_step_without_catch(step, registry, script, history) ==
    LET grounded == ground_step(step, registry, history) IN
    IF grounded.raised
    THEN [observation |-> NoObservation, history |-> history, invocations |-> 0,
          tool_call |-> NoToolCall, raised |-> TRUE]
    ELSE LET r == execute_with_repair(grounded.tool_call, NoneArg, script, history)
         IN [observation |-> r.observation, history |-> r.history,
             invocations |-> r.invocations, tool_call |-> grounded.tool_call,
             raised |-> FALSE]

\* execute_step: [observation, history, invocations, tool_call, raised];
\* raised says whether an exception leaves execute_step (none does).
execute_step(step, registry, script, history) ==
    LET grounded == ground_step(step, registry, history) IN
    IF grounded.raised
    THEN [observation |-> Observation(step.step_id, FAILURE, NoResult,
                                      <<"Grounding failed: ">> \o grounded.error,
                                      0, {}),
          history |-> history, invocations |-> 0, tool_call |-> NoToolCall,
          raised |-> FALSE]
    ELSE LET r == execute_with_repair(grounded.tool_call, NoneArg, script, history)
         IN [observation |-> r.observation, history |-> r.history,
             invocations |-> r.invocations, tool_call |-> grounded.tool_call,
             raised |-> FALSE]

\* get_execution_summary: total_executions, successes and failures, and
\* success_rate and avg_retries as the fractions <<numerator, denominator>>
\* the code divides (0.0 on an empty history).
get_execution_summary(history) ==
    LET total == Len(history)
        successes == Cardinality({k \in DOMAIN history : is_success(history[k])})
        RECURSIVE Retries(_)
        Retries(k) == IF k = 0 THEN 0 ELSE history[k].retry_count + Retries(k - 1)
    IN [total_executions |-> total,
        successes |-> successes,
        failures |-> total - successes,
        success_rate |-> IF total > 0 THEN <<successes, total>> ELSE <<0, 1>>,
        avg_retries |-> IF total > 0 THEN <<Retries(total), total>> ELSE <<0, 1>>]

-----------------------------------------------------------------------------
(* SQLPolicyChecker (policy.py).                                           *)

DDL_KEYWORDS == {"CREATE", "DROP", "ALTER", "TRUNCATE", "RENAME"}
DML_KEYWORDS == {"INSERT", "UPDATE", "DELETE", "MERGE"}
DANGEROUS_KEYWORDS ==
    {"GRANT", "REVOKE", "EXEC", "EXECUTE", "CALL", "LOAD", "COPY", "IMPORT", "EXPORT"}

\* str.upper() of a piece.
Upper(p) ==
    CASE p = "select" -> "SELECT"
      [] p = "from" -> "FROM"
      [] p = "drop" -> "DROP"
      [] p = "Drop" -> "DROP"
      [] p = "table" -> "TABLE"
      [] p = "users" -> "USERS"
      [] p = "Query" -> "QUERY"
      [] p = "data" -> "DATA"
      [] p = "sales" -> "SALES"
      [] p = "Filter" -> "FILTER"
      [] p = "rows" -> "ROWS"
      [] p = "update" -> "UPDATE"
      [] p = "updated" -> "UPDATED"
      [] OTHER -> p

\* The pieces made of characters that are not word characters (\W).
NonWordPieces == {" ", ";", "*", "--", ",", "(", ")", "="}

\* re.search(rf'\b{keyword}\b', query_upper)
WholeWord(query, keyword) ==
    \E i \in DOMAIN query :
        /\ Upper(query[i]) = keyword
        /\ i = 1 \/ query[i - 1] \in NonWordPieces
        /\ i = Len(query) \/ query[i + 1] \in NonWordPieces

\* ["none", "low", "medium", "high", "critical"].index(x)
SeverityRank(severity) ==
    CASE severity = "none" -> 0
      [] severity = "low" -> 1
      [] severity = "medium" -> 2
      [] severity = "high" -> 3
      [] severity = "critical" -> 4

\* The severity of the violation found last, whatever was found before.
MaxSeverity_last_wins(severity, other) == other

\* max(severity, other, key=...index)
MaxSeverity(severity, other) ==
    IF SeverityRank(other) > SeverityRank(severity) THEN other ELSE severity

\* check_query: [allowed, violations, severity]; violations is kept as a
\* set, the order inside one keyword group being that of a Python set.
check_query(query) ==
    LET ddl == {<<"DDL operation blocked", k>> : k \in {k \in DDL_KEYWORDS : WholeWord(query, k)}}
        dml == {<<"DML operation blocked", k>> : k \in {k \in DML_KEYWORDS : WholeWord(query, k)}}
        dangerous == {<<"Dangerous operation blocked", k>> :
                        k \in {k \in DANGEROUS_KEYWORDS : WholeWord(query, k)}}
        keyword == ddl \cup dml \cup dangerous
        comment == IF Contains(query, "--") /\ (Strip(query) = <<>> \/ Head(Strip(query)) # "--")
                   THEN {<<"SQL comment detected (potential injection)", "">>}
                   ELSE {}
        multiple == IF Contains(RStrip(Strip(query), {";"}), ";")
                    THEN {<<"Multiple statements detected (potential injection)", "">>}
                    ELSE {}
        violations == keyword \cup comment \cup multiple
        after_keywords == IF keyword # {} THEN "critical" ELSE "none"
        after_comment == IF comment # {} THEN MaxSeverity(after_keywords, "high")
                         ELSE after_keywords
        severity == IF multiple # {} THEN MaxSeverity(after_comment, "high")
                    ELSE after_comment
    IN [allowed |-> violations = {}, violations |-> violations, severity |-> severity]

-----------------------------------------------------------------------------
(* MerkleLog (merkle_log.py).                                              *)

\* GENESIS_HASH = "0" * 64. A hash is modelled as a tuple: the genesis
\* constant, None (NoHash), or what sha256 was computed over.
GENESIS_HASH == <<"0000000000000000">>

\* None / JSON null where a hash is expected.
NoHash == <<>>

\* Event payloads as append receives them (a Dict[str, Any]): one holds a
\* tuple, which JSON stores as a list, and one a dict with integer keys,
\* which JSON stores as strings.
PlainPayload == "{'status': 'ok'}"
TuplePayload == "{'ids': (1, 2)}"
ListPayload == "{'ids': [1, 2]}"
IntKeyPayload == "{'counts': {2: 1, 10: 3}}"
StrKeyPayload == "{'counts': {'2': 1, '10': 3}}"

\* json.loads(json.dumps(data)): what a reader of the file gets back.
JsonRoundTrip(data) ==
    CASE data = TuplePayload -> ListPayload
      [] data = IntKeyPayload -> StrKeyPayload
      [] OTHER -> data

\* json.dumps(data, sort_keys=True, separators=(',', ':')): the keys of a
\* dict are sorted as they are (2 < 10) and written as strings afterwards;
\* read back they are strings and sort as strings ("10" < "2").
CanonicalJson(data) ==
    CASE data = PlainPayload -> "{\"status\":\"ok\"}"
      [] data = TuplePayload -> "{\"ids\":[1,2]}"
      [] data = ListPayload -> "{\"ids\":[1,2]}"
      [] data = IntKeyPayload -> "{\"counts\":{\"2\":1,\"10\":3}}"
      [] data = StrKeyPayload -> "{\"counts\":{\"10\":3,\"2\":1}}"
      [] OTHER -> data

LogEntry(entry_id, timestamp, event_type, data, parent_hash, entry_hash) ==
    [entry_id |-> entry_id, timestamp |-> timestamp, event_type |-> event_type,
     data |-> data, parent_hash |-> parent_hash, entry_hash |-> entry_hash]

\* A hash that leaves the payload out of the hashed fields.
compute_hash_without_data(entry) ==
    <<"sha256", entry.entry_id, entry.timestamp, entry.event_type, entry.parent_hash>>

\* LogEntry.compute_hash: sha256 over the canonical JSON of every field but
\* entry_hash; sha256 is taken to be free of collisions.
compute_hash(entry) ==
    <<"sha256", entry.entry_id, entry.timestamp, entry.event_type,
      CanonicalJson(entry.data), entry.parent_hash>>

\* MerkleLog.append on the instance whose _last_hash is `last`:
\* [file, last_hash, entry], the file as written, the instance's new
\* _last_hash and the LogEntry returned.
append(file, last, entry_id, event_type, data, now) ==
    LET parent_hash == IF last # NoHash THEN last ELSE GENESIS_HASH
        entry == LogEntry(entry_id, now, event_type, data, parent_hash, NoHash)
        entry_hash == compute_hash(entry)
        stored == [entry EXCEPT !.entry_hash = entry_hash,
                                !.data = JsonRoundTrip(data)]
    IN [file |-> Append(file, stored), last_hash |-> entry_hash,
        entry |-> [entry EXCEPT !.entry_hash = entry_hash]]

\* The results of verify_chain: (True, None), or (False, message); of the
\* message the model keeps which of the three it is and the entry and line
\* numbers it names ("Corrupted log" names the line only).
ChainValid == [valid |-> TRUE, kind |-> "none", entry |-> 0, line |-> 0]
ChainBreak(entry_count, line_num) ==
    [valid |-> FALSE, kind |-> "chain_break", entry |-> entry_count + 1, line |-> line_num]
HashMismatch(entry_count, line_num) ==
    [valid |-> FALSE, kind |-> "hash_mismatch", entry |-> entry_count + 1, line |-> line_num]
CorruptedLog(line_num) ==
    [valid |-> FALSE, kind |-> "corrupted", entry |-> 0, line |-> line_num]

\* value[:16] raises TypeError on None.
Subscriptable(hash) == hash # NoHash

\* The loop of verify_chain from line line_num on.
RECURSIVE verify_from(_, _, _, _)
verify_from(file, line_num, expected_parent, entry_count) ==
    IF line_num > Len(file) THEN ChainValid
    ELSE LET entry == file[line_num] IN
         IF entry.parent_hash # expected_parent
         THEN IF Subscriptable(entry.parent_hash)
              THEN ChainBreak(entry_count, line_num)
              ELSE CorruptedLog(line_num)
         ELSE IF compute_hash(entry) # entry.entry_hash
         THEN IF Subscriptable(entry.entry_hash)
              THEN HashMismatch(entry_count, line_num)
              ELSE CorruptedLog(line_num)
         ELSE verify_from(file, line_num + 1, entry.entry_hash, entry_count + 1)

\* MerkleLog.verify_chain; a file that does not exist reads as no entries.
verify_chain(file) == verify_from(file, 1, GENESIS_HASH, 0)

\* str.startswith
startswith(text, prefix) ==
    /\ Len(text) >= Len(prefix)
    /\ SubSeq(text, 1, Len(prefix)) = prefix

\* MerkleLog.get_entries: the stored entries that pass the filters given,
\* in file order; with a limit, the last `limit` of them. A filter that is
\* None or "" is falsy and is "" here; a limit that is None or 0 is 0.
get_entries(file, event_type, entry_id_prefix, limit) ==
    LET Passes(entry) ==
            /\ (event_type = "" \/ entry.event_type = event_type)
            /\ (entry_id_prefix = "" \/ startswith(entry.entry_id, entry_id_prefix))
        entries == SelectSeq(file, Passes)
    IN IF limit = 0 \/ limit >= Len(entries) THEN entries
       ELSE SubSeq(entries, Len(entries) - limit + 1, Len(entries))

\* A payload that makes the entry's line longer than the read buffer.
BigPayload == "{'blob': 'x' * 5000}"

\* The bytes of the line json.dumps(asdict(entry)) writes, to the hundred.
LineBytes(entry) == IF entry.data = BigPayload THEN 5300 ELSE 300

\* buffer_size = min(4096, file_size)
BUFFER_SIZE == 4096

\* _load_last_hash: the entry_hash of the last line when the last
\* BUFFER_SIZE bytes of the file hold that line whole (the line and its
\* newline); a cut line fails json.loads and leaves None. No file and an
\* empty file leave None.
_load_last_hash(file) ==
    IF file = <<>> THEN NoHash
    ELSE IF LineBytes(file[Len(file)]) + 1 <= BUFFER_SIZE
    THEN file[Len(file)].entry_hash
    ELSE NoHash

-----------------------------------------------------------------------------
(* AuditTracer (tracer.py): the log as one tracer sees it is                *)
(* [file, last_hash, clock].                                                *)

REQUEST_SUBMITTED == "request_submitted"
PLAN_CREATED == "plan_created"
OBSERVATION_RECORDED == "observation_recorded"
ERROR_OCCURRED == "error_occurred"
ANALYSIS_COMPLETED == "analysis_completed"

\* The text of a sequence of pieces.
RECURSIVE Joined(_)
Joined(t) == IF t = <<>> THEN "" ELSE Head(t) \o Joined(Tail(t))

\* self.log.append(...) a clock tick after the last reading.
Logged(audit, entry_id, event_type, data) ==
    LET r == append(audit.file, audit.last_hash, entry_id, event_type, data,
                    audit.clock + 1)
    IN [file |-> r.file, last_hash |-> r.last_hash, clock |-> audit.clock + 1]

\* A list of strings as json.dumps writes it.
RECURSIVE JsonList(_)
JsonList(items) ==
    IF items = <<>> THEN ""
    ELSE "'" \o Head(items) \o "'" \o
         (IF Len(items) > 1 THEN ", " ELSE "") \o JsonList(Tail(items))

log_request(audit, request_id, intent, data_sources) ==
    Logged(audit, request_id \o "-request", REQUEST_SUBMITTED,
           "{'request_id': '" \o request_id \o "', 'intent': '" \o intent \o
           "', 'data_sources': [" \o JsonList(data_sources) \o "]}")

log_plan(audit, request_id, plan_id, subtask_count, estimated_seconds) ==
    Logged(audit, request_id \o "-plan-" \o plan_id, PLAN_CREATED,
           "{'request_id': '" \o request_id \o "', 'plan_id': '" \o plan_id \o
           "', 'subtask_count': " \o ToString(subtask_count) \o
           ", 'estimated_seconds': " \o ToString(estimated_seconds) \o "}")

\* The data of an observation entry: error_message joins it only when it
\* is truthy.
ObservationData(observation_id, call_id, status, error_message) ==
    "{'observation_id': '" \o observation_id \o "', 'call_id': '" \o call_id \o
    "', 'status': '" \o status \o "', 'execution_time_seconds': 0.0" \o
    (IF error_message # NoText
     THEN ", 'error_message': '" \o Joined(error_message) \o "'"
     ELSE "") \o "}"

\* log_observation writing an entry only for an observation without error.
log_observation_success_only(audit, observation_id, call_id, status, error_message) ==
    IF error_message # NoText THEN audit
    ELSE Logged(audit, observation_id \o "-obs", OBSERVATION_RECORDED,
                ObservationData(observation_id, call_id, status, error_message))

log_observation(audit, observation_id, call_id, status, error_message) ==
    Logged(audit, observation_id \o "-obs", OBSERVATION_RECORDED,
           ObservationData(observation_id, call_id, status, error_message))

log_error(audit, error_id, error_type, error_message, request_id) ==
    Logged(audit, error_id \o "-error", ERROR_OCCURRED,
           "{'error_id': '" \o error_id \o "', 'error_type': '" \o error_type \o
           "', 'error_message': '" \o error_message \o
           "', 'context': {'request_id': '" \o request_id \o "'}}")

log_completion(audit, request_id, status, artifact_count) ==
    Logged(audit, request_id \o "-complete", ANALYSIS_COMPLETED,
           "{'request_id': '" \o request_id \o "', 'status': '" \o status \o
           "', 'artifact_count': " \o ToString(artifact_count) \o "}")

RECIPE_STORED == "recipe_stored"

log_recipe_storage(audit, recipe_id, schema_fingerprint, plan_id) ==
    Logged(audit, recipe_id \o "-store", RECIPE_STORED,
           "{'recipe_id': '" \o recipe_id \o "', 'schema_fingerprint': '" \o
           schema_fingerprint \o "', 'plan_id': '" \o plan_id \o "'}")

-----------------------------------------------------------------------------
(* RecipeStore (recipe_store.py): the recipes table is the sequence of its *)
(* rows in rowid order, which is the order a SELECT filtered on            *)
(* schema_fingerprint fetches them in.                                     *)

\* embedding_model.encode(text): the sentence-transformer's vector of a
\* text. The texts of the model and their vectors, all of norm 5.
encode(text) ==
    CASE text = "Analyze sales" -> <<3, 4>>
      [] text = "Analyze revenue" -> <<4, 3>>
      [] text = "Plot churn" -> <<-4, 3>>
      [] OTHER -> <<5, 0>>

Dot(a, b) == a[1] * b[1] + a[2] * b[2]

\* np.linalg.norm on the vectors of the model.
Norm(a) == CHOOSE n \in 0..(Dot(a, a)) : n * n = Dot(a, a)

\* _cosine_similarity: the quotient as <<numerator, positive denominator>>.
_cosine_similarity(a, b) ==
    IF Norm(a) = 0 \/ Norm(b) = 0 THEN <<0, 1>>
    ELSE <<Dot(a, b), Norm(a) * Norm(b)>>

\* x < y for two such quotients.
SimLess(x, y) == x[1] * y[2] < y[1] * x[2]

\* The row save_recipe inserts.
RecipeRow(recipe_id, schema_fingerprint, intent_template, plan_structure, now) ==
    [recipe_id |-> recipe_id,
     schema_fingerprint |-> schema_fingerprint,
     intent_template |-> intent_template,
     intent_embedding |-> encode(intent_template),
     plan_structure |-> plan_structure,
     tool_argument_templates |-> "[]",
     success_count |-> 1,
     created_at |-> now,
     last_used_at |-> now]

save_recipe(store, recipe_id, schema_fingerprint, intent_template, plan_structure, now) ==
    Append(store, RecipeRow(recipe_id, schema_fingerprint, intent_template,
                            plan_structure, now))

update_success_count(store, recipe_id, now) ==
    [i \in DOMAIN store |->
        IF store[i].recipe_id = recipe_id
        THEN [store[i] EXCEPT !.success_count = @ + 1, !.last_used_at = now]
        ELSE store[i]]

\* SELECT ... WHERE schema_fingerprint = ?
RowsWhere(store, schema_fingerprint) ==
    SelectSeq(store, LAMBDA row : row.schema_fingerprint = schema_fingerprint)

\* candidates.sort(reverse=True, key=lambda x: x[0]): a stable sort, equal
\* keys keep the order they were fetched in.
RECURSIVE SortBySimilarity(_)
SortBySimilarity(candidates) ==
    IF candidates = <<>> THEN <<>>
    ELSE LET front == SortBySimilarity(SubSeq(candidates, 1, Len(candidates) - 1))
             c == candidates[Len(candidates)]
             k == Cardinality({i \in DOMAIN front :
                                  ~SimLess(front[i].similarity, c.similarity)})
         IN SubSeq(front, 1, k) \o <<c>> \o SubSeq(front, k + 1, Len(front))

\* ORDER BY last_used_at DESC, as list_recipes reads the table.
RECURSIVE SortByLastUsed(_)
SortByLastUsed(candidates) ==
    IF candidates = <<>> THEN <<>>
    ELSE LET front == SortByLastUsed(SubSeq(candidates, 1, Len(candidates) - 1))
             c == candidates[Len(candidates)]
             k == Cardinality({i \in DOMAIN front :
                                  front[i].row.last_used_at >= c.row.last_used_at})
         IN SubSeq(front, 1, k) \o <<c>> \o SubSeq(front, k + 1, Len(front))

\* seq[:k] of Python.
SliceTo(seq, k) ==
    IF k >= 0 THEN SubSeq(seq, 1, IF k < Len(seq) THEN k ELSE Len(seq))
    ELSE SubSeq(seq, 1, Len(seq) + k)

Candidates(store, schema_fingerprint, intent) ==
    LET rows == RowsWhere(store, schema_fingerprint)
    IN [i \in DOMAIN rows |->
          [similarity |-> _cosine_similarity(encode(intent), rows[i].intent_embedding),
           row |-> rows[i]]]

\* retrieve_recipes ranking by recency instead of similarity.
retrieve_recipes_by_recency(store, schema_fingerprint, intent, top_k) ==
    LET taken == SliceTo(SortByLastUsed(Candidates(store, schema_fingerprint, intent)),
                         top_k)
    IN [i \in DOMAIN taken |-> taken[i].row]

retrieve_recipes(store, schema_fingerprint, intent, top_k) ==
    LET taken == SliceTo(SortBySimilarity(Candidates(store, schema_fingerprint, intent)),
                         top_k)
    IN [i \in DOMAIN taken |-> taken[i].row]

-----------------------------------------------------------------------------
(* SchemaFingerprinter (schema_fingerprint.py). A columns dict is the      *)
(* sequence of its <<name, dtype>> items in insertion order.               *)

\* The column names of the model, in the order sorted() puts them.
ColumnNames == <<"a", "a:integer,b", "b">>

Dtypes == {"int64", "int32", "Int64"}

\* _normalize_type: TYPE_NORMALIZATION.get(dtype, dtype.lower()).
_normalize_type(dtype) ==
    CASE dtype \in {"int64", "int32", "int16", "int8"} -> "integer"
      [] dtype \in {"float64", "float32"} -> "float"
      [] dtype \in {"object", "string"} -> "string"
      [] dtype = "bool" -> "boolean"
      [] dtype \in {"datetime64[ns]", "datetime64[ns, UTC]"} -> "timestamp"
      [] dtype = "timedelta64[ns]" -> "interval"
      [] OTHER -> Lower(dtype)

\* columns[col_name]
DtypeOf(columns, col_name) ==
    LET i == CHOOSE i \in DOMAIN columns : columns[i][1] = col_name
    IN columns[i][2]

\* sorted(columns.keys())
SortedKeys(columns) ==
    SelectSeq(ColumnNames, LAMBDA n : \E i \in DOMAIN columns : columns[i][1] = n)

\* sep.join(items)
RECURSIVE JoinWith(_, _)
JoinWith(items, sep) ==
    IF items = <<>> THEN ""
    ELSE IF Len(items) = 1 THEN items[1]
    ELSE items[1] \o sep \o JoinWith(Tail(items), sep)

\* hashlib.sha256(text.encode()).hexdigest(): equal exactly for equal texts.
Sha256(text) == <<"sha256", text>>

\* compute_fingerprint with normalize_types left at True; the ValueError
\* of an empty schema is the value "ValueError".
compute_fingerprint(columns, table_name) ==
    IF columns = <<>> THEN "ValueError"
    ELSE LET keys == SortedKeys(columns)
             schema_items == [k \in DOMAIN keys |->
                                keys[k] \o ":" \o _normalize_type(DtypeOf(columns, keys[k]))]
         IN Sha256(JoinWith(schema_items, ","))

-----------------------------------------------------------------------------
(* Inputs of the planner.                                                  *)

OpIds == {"a", "b", "c"}

\* Dependency lists: ids without repetition, at most MaxDeps of them.
RECURSIVE DepListsOfLen(_)
DepListsOfLen(n) ==
    IF n = 0 THEN {<<>>}
    ELSE {Append(d, id) : d \in DepListsOfLen(n - 1), id \in OpIds}

NoRepeat(s) == \A i, j \in DOMAIN s : i # j => s[i] # s[j]

DepLists == {d \in UNION {DepListsOfLen(n) : n \in 0..MaxDeps} : NoRepeat(d)}

QuerySales == <<"Query", " ", "sales">>
FilterRows == <<"Filter", " ", "rows">>
AggregateByRegion == <<"Aggregate", " ", "by", " ", "region">>
CreateChart == <<"Create", " ", "chart">>
ProfileSchema == <<"profile", " ", "schema">>

\* The description of each operation id.
DescriptionOf == [id \in OpIds |->
    CASE id = "a" -> QuerySales
      [] id = "b" -> FilterRows
      [] OTHER -> AggregateByRegion]

\* Operation lists with unique ids (Operation.id: "Unique operation identifier").
RECURSIVE OperationListsOver(_)
OperationListsOver(ids) ==
    {<<>>} \cup
    UNION {{<<Operation(id, DescriptionOf[id], d)>> \o rest :
                d \in DepLists, rest \in OperationListsOver(ids \ {id})} :
           id \in ids}

OperationLists == OperationListsOver(OpIds) \ {<<>>}

LegacyTexts == {QuerySales, CreateChart, ProfileSchema}

RECURSIVE LegacyListsOfLen(_)
LegacyListsOfLen(n) ==
    IF n = 0 THEN {<<>>}
    ELSE {Append(l, Str(t)) : l \in LegacyListsOfLen(n - 1), t \in LegacyTexts}

LegacyLists == UNION {LegacyListsOfLen(n) : n \in 0..MaxLegacyOps}

RowLimit500 == <<"row", "_", "limit", "=", "500">>
NoPii == <<"no", " ", "PII">>
ConstraintLists == {<<>>, <<NoPii, RowLimit500>>}

-----------------------------------------------------------------------------
(* The components as constructed, before any call.                         *)

\* The Actor as constructed, before any call.
ActorIdle ==
    /\ tool_registry = ToolType
    /\ execution_history = <<>>
    /\ tool_call = NoToolCall
    /\ max_retries = NoneArg
    /\ tool_script = <<>>
    /\ returned = NoObservation
    /\ invocations = 0
    /\ calls_made = 0

\* The MerkleLog instances; "A" is the one an AuditTracer holds.
Instances == {"A", "B"}

NoTampering == [done |-> FALSE, position |-> 0, field |-> "none"]

NotVerified == [valid |-> FALSE, kind |-> "not run", entry |-> 0, line |-> 0]

\* A log that was never written to, and instances opened on it.
LogIdle ==
    /\ log_file = <<>>
    /\ last_hash = [i \in Instances |-> NoHash]
    /\ clock = 0
    /\ tampering = NoTampering
    /\ verify_result = NotVerified
    /\ opened_at = [i \in Instances |-> IF i = "A" THEN 0 ELSE -1]

AnalysisRequest(request_id, intent, data_sources, cs, deliverables) ==
    [request_id |-> request_id, intent |-> intent, data_sources |-> data_sources,
     constraints |-> cs, deliverables |-> deliverables]

NoRequest == AnalysisRequest("", "", <<>>, <<>>, <<>>)

AnalysisResponse(request_id, status, produced, total_steps, failed_count, plan_ref, error) ==
    [request_id |-> request_id, status |-> status, artifacts |-> produced,
     total_steps |-> total_steps, successful_steps |-> total_steps - failed_count,
     failed_steps |-> failed_count, plan_ref |-> plan_ref,
     error_message |-> error]

NoResponse == AnalysisResponse("", "none", <<>>, 0, 0, "None", "None")

\* A DataAgent no analyze call was made on.
NoCallYet ==
    /\ pc = "idle"
    /\ request = NoRequest
    /\ step_index = 0
    /\ execution_context = {}
    /\ failed_steps = <<>>
    /\ artifacts = <<>>
    /\ response = NoResponse
    /\ executed = <<>>
    /\ tool_invocations = <<>>

\* A RecipeStore on a new database, no retrieve_recipes call made.
NoRetrieval == [schema_fingerprint |-> "", intent |-> "", top_k |-> -1, results |-> <<>>]

RecipeIdle == recipe_store = <<>> /\ retrieved = NoRetrieval

\* No compute_fingerprint call made or prepared.
FingerprintIdle == schemas = <<>> /\ fingerprints = <<>>

NoPolicyResult == [allowed |-> FALSE, violations |-> {}, severity |-> "not checked"]

\* No check_query call made or prepared.
PolicyIdle == sql_query = <<>> /\ policy_result = NoPolicyResult

NoFunc == [runtime |-> 0, ends |-> "returns"]

SandboxResult(success, result, error, violations) ==
    [success |-> success, result |-> result, error |-> error, violations |-> violations]

\* result = None, error = None, success = False, violations = []
NoSandboxResult == SandboxResult(FALSE, "None", "None", {})

\* A SandboxExecutor with the default quota of 30.0 seconds, not yet used.
SandboxIdle ==
    /\ sandbox_quota = 300
    /\ func = NoFunc
    /\ sandbox_pc = "idle"
    /\ elapsed = 0
    /\ alarm_at = 0
    /\ sandbox_result = NoSandboxResult

\* The callers that may run update_success_count at the same time.
Writers == 1..MaxWriters

\* A caller and its sqlite3 connection: pc is idle, connected (now_iso read,
\* sqlite3.connect done), executed (the UPDATE ran in the connection's
\* transaction), closed (committed and closed) or raised (the UPDATE raised
\* OperationalError, the connection was closed); pending is the row the
\* open transaction has written, seq the place of its commit among all.
Connection(at, recipe_id, now, pending, seq) ==
    [pc |-> at, recipe_id |-> recipe_id, now |-> now, pending |-> pending, seq |-> seq]

NoRow == [recipe_id |-> "None"]

NoConnection == Connection("idle", "None", 0, NoRow, 0)

\* No update_success_count call under way.
ConnectionsIdle ==
    /\ db_lock = 0
    /\ connections = [w \in Writers |-> NoConnection]
    /\ commits = 0

\* The request ids callers pass; one is the beginning of the other.
TraceRequestIds == {"req-1", "req-10"}

NoTrace == [request_id |-> "None", entries |-> <<>>]

TraceIdle ==
    /\ written_for = <<>>
    /\ trace_pc = [r \in TraceRequestIds |-> "new"]
    /\ request_trace = NoTrace

LibraryIdle == FingerprintIdle /\ PolicyIdle /\ SandboxIdle /\ ConnectionsIdle /\ TraceIdle

AnalyzeIdle == intent_parser = "None" /\ NoCallYet /\ RecipeIdle /\ LibraryIdle

PlannerIdle ==
    /\ operations = <<>>
    /\ constraints = <<>>
    /\ plan = NoPlan
    /\ plan_error = "none"
    /\ last_call = "none"
    /\ uuid_count = 0

-----------------------------------------------------------------------------
(* The planner's calls as actions.                                         *)


PlannerInit ==
    /\ operations \in OperationLists \cup LegacyLists
    /\ constraints \in ConstraintLists
    /\ plan = NoPlan
    /\ plan_error = "none"
    /\ last_call = "none"
    /\ uuid_count = 0
    /\ ActorIdle
    /\ LogIdle
    /\ AnalyzeIdle

\* The dependency lists a caller of add_step passes: none, the first step,
\* the last step, both, or an id that no step has.
AddStepDependencies(p) ==
    {<<>>, <<"plan-unknown">>} \cup
    (IF p.steps = <<>> THEN {}
     ELSE {<<p.steps[1].step_id>>, <<p.steps[Len(p.steps)].step_id>>,
           <<p.steps[1].step_id, p.steps[Len(p.steps)].step_id>>})

BuildPlan ==
    /\ last_call = "none"
    /\ LET r == build_plan(operations, constraints) IN
        /\ plan' = r.plan
        /\ plan_error' = r.error
    /\ last_call' = "build_plan"
    /\ UNCHANGED <<operations, constraints, uuid_count>>
    /\ UNCHANGED <<actorVars, logVars, analyzeVars, recipeVars, libraryVars>>

\* add_step applied to the plan last returned; when it raises no plan is
\* returned and the caller keeps the plan it had.
AddStep ==
    /\ last_call # "none"
    /\ ~plan.none
    /\ uuid_count < MaxAddSteps
    /\ \E operation \in {CreateChart}, dependencies \in AddStepDependencies(plan) :
        LET r == add_step(plan, operation, dependencies, constraints,
                          Uuid4(uuid_count + 1))
        IN /\ plan' = IF r.error = "none" THEN r.plan ELSE plan
           /\ plan_error' = r.error
    /\ uuid_count' = uuid_count + 1
    /\ last_call' = "add_step"
    /\ UNCHANGED <<operations, constraints>>
    /\ UNCHANGED <<actorVars, logVars, analyzeVars, recipeVars, libraryVars>>

PlannerNext == BuildPlan \/ AddStep

SpecPlanner == PlannerInit /\ [][PlannerNext]_vars

-----------------------------------------------------------------------------
(* The Actor's execute_with_repair as an action.                           *)

ConnectionTimeout == Raise(<<"Exception">>, <<"Connection", " ", "timeout">>)
RateLimited == Raise(<<"Runtime", "Error">>, <<"Rate", " ", "limit", " ", "exceeded">>)
TimeoutErrorDeadline == Raise(<<"Timeout", "Error">>, <<"deadline", " ", "passed">>)
InvalidOperation == Raise(<<"Value", "Error">>, <<"Invalid", " ", "operation">>)

\* What a tool does at one invocation of execute_with_repair: it returns,
\* raises a transient error or raises another error.
ToolOutcomes == {Return(DataFrame(2, 2)), ConnectionTimeout, InvalidOperation}

RECURSIVE ScriptsOfLen(_)
ScriptsOfLen(n) ==
    IF n = 0 THEN {<<>>}
    ELSE {Append(sc, o) : sc \in ScriptsOfLen(n - 1), o \in ToolOutcomes}

\* The max_retries arguments a caller passes: none, or 0..MaxRetriesArg.
RetriesArgs == {NoneArg} \cup 0..MaxRetriesArg

\* The attempts range(max_retries + 1) allows.
AttemptsAllowed(retries_arg) ==
    (IF retries_arg # NoneArg THEN retries_arg ELSE MAX_RETRIES) + 1

\* The ToolCall of the n-th call: one step after the other.
NthToolCall(n) ==
    IF n % 2 = 1
    THEN ToolCall(SQL_RUNNER, {<<"query", QuerySales>>}, "step-" \o ToString(n))
    ELSE ToolCall(DF_OPERATIONS, {<<"operation", FilterRows>>}, "step-" \o ToString(n))

ActorInit == PlannerIdle /\ ActorIdle /\ LogIdle /\ AnalyzeIdle

ExecuteWithRepair ==
    /\ calls_made < MaxCalls
    /\ \E tc \in {NthToolCall(calls_made + 1)}, retries_arg \in RetriesArgs :
       \E script \in ScriptsOfLen(AttemptsAllowed(retries_arg)) :
        LET r == execute_with_repair(tc, retries_arg, script, execution_history) IN
        /\ tool_call' = tc
        /\ max_retries' = retries_arg
        /\ tool_script' = script
        /\ returned' = r.observation
        /\ execution_history' = r.history
        /\ invocations' = r.invocations
    /\ calls_made' = calls_made + 1
    /\ UNCHANGED tool_registry
    /\ UNCHANGED <<plannerVars, logVars, analyzeVars, recipeVars, libraryVars>>

ActorNext == ExecuteWithRepair

SpecActor == ActorInit /\ [][ActorNext]_vars

-----------------------------------------------------------------------------
(* The Actor's execute_step as an action: one Actor is handed plan steps,  *)
(* in any order and any number of times.                                   *)

\* The steps of a plan that loads, filters, aggregates and plots, and an
\* aggregation that depends on the load only.
LoadStep == PlanStep("s1", QuerySales, SQL_RUNNER, <<>>, 4, <<>>)
FilterStep ==
    PlanStep("s2", FilterRows, DF_OPERATIONS, <<"s1">>, 2, <<FILTER_BEFORE_AGGREGATE>>)
AggregateStep ==
    PlanStep("s3", AggregateByRegion, DF_OPERATIONS, <<"s2">>, 2,
             <<FILTER_BEFORE_AGGREGATE>>)
UnfilteredAggregateStep ==
    PlanStep("s4", AggregateByRegion, DF_OPERATIONS, <<"s1">>, 2,
             <<FILTER_BEFORE_AGGREGATE>>)
PlotStep == PlanStep("s5", CreateChart, PLOTTER, <<"s3">>, 3, <<>>)

StepPool == {LoadStep, FilterStep, AggregateStep, UnfilteredAggregateStep, PlotStep}

\* The step of the pool with a given step id.
PoolStep(step_id) == CHOOSE step \in StepPool : step.step_id = step_id

\* What the tool of a step does in one execute_step call: it succeeds,
\* succeeds after a connection timeout, fails for good, or raises a
\* TimeoutError whose text names no transient condition and then succeeds.
StepScripts ==
    {<<Return(DataFrame(2, 2))>>,
     <<ConnectionTimeout, Return(DataFrame(2, 2))>>,
     <<InvalidOperation>>,
     <<TimeoutErrorDeadline, Return(DataFrame(2, 2))>>}

\* An Actor whose registry holds every tool, or every tool but the plotter.
StepsInit ==
    /\ PlannerIdle /\ LogIdle /\ AnalyzeIdle
    /\ tool_registry \in {ToolType, ToolType \ {PLOTTER}}
    /\ execution_history = <<>>
    /\ tool_call = NoToolCall
    /\ max_retries = NoneArg
    /\ tool_script = <<>>
    /\ returned = NoObservation
    /\ invocations = 0
    /\ calls_made = 0

ExecuteStep ==
    /\ Len(executed) < MaxStepCalls
    /\ \E step \in StepPool, script \in StepScripts :
        LET r == execute_step(step, tool_registry, script, execution_history) IN
        /\ executed' = Append(executed, step.step_id)
        /\ tool_invocations' =
                tool_invocations \o [k \in 1..r.invocations |-> r.tool_call]
        /\ execution_history' = r.history
        /\ tool_call' = r.tool_call
        /\ tool_script' = IF r.invocations = 0 THEN <<>> ELSE script
        /\ invocations' = r.invocations
        /\ calls_made' = IF r.tool_call = NoToolCall THEN calls_made
                         ELSE calls_made + 1
        /\ returned' = r.observation
    /\ UNCHANGED <<tool_registry, max_retries>>
    /\ UNCHANGED <<intent_parser, pc, request, step_index, execution_context,
                   failed_steps, artifacts, response>>
    /\ UNCHANGED <<plannerVars, logVars, recipeVars, libraryVars>>

StepsNext == ExecuteStep

SpecSteps == StepsInit /\ [][StepsNext]_vars

-----------------------------------------------------------------------------
(* The MerkleLog's calls, and a change of the stored file, as actions.     *)

EntryIds == {"req-1-request", "req-2-request"}
Payloads == {PlainPayload, TuplePayload, IntKeyPayload}

LogInit == PlannerIdle /\ ActorIdle /\ LogIdle /\ AnalyzeIdle

\* append through instance "A"; the clock has moved on by a tick or by less
\* than its resolution.
LogAppend ==
    /\ ~tampering.done
    /\ Len(log_file) < MaxAppends
    /\ \E entry_id \in EntryIds, data \in Payloads, tick \in {0, 1} :
        LET r == append(log_file, last_hash["A"], entry_id, REQUEST_SUBMITTED,
                        data, clock + tick)
        IN /\ log_file' = r.file
           /\ last_hash' = [last_hash EXCEPT !["A"] = r.last_hash]
           /\ clock' = clock + tick
    /\ verify_result' = NotVerified
    /\ UNCHANGED <<tampering, opened_at>>
    /\ UNCHANGED <<plannerVars, actorVars, analyzeVars, recipeVars, libraryVars>>

\* The hashes a stored hash field can be overwritten with: a hash of the
\* log, the genesis constant, another hex string, null.
HashValues ==
    {log_file[i].entry_hash : i \in DOMAIN log_file} \cup
    {GENESIS_HASH, <<"ffffffffffffffff">>, NoHash}

\* The values one field of a stored entry can be overwritten with.
FieldValues(field) ==
    CASE field = "entry_id" -> EntryIds
      [] field = "timestamp" -> 0..(clock + 1)
      [] field = "event_type" -> {REQUEST_SUBMITTED, ERROR_OCCURRED}
      [] field = "data" -> {JsonRoundTrip(d) : d \in Payloads}
      [] field = "parent_hash" -> HashValues
      [] field = "entry_hash" -> HashValues

\* Someone edits the file of a valid log: one field of one stored entry gets
\* another value.
Tamper ==
    /\ ~tampering.done
    /\ verify_chain(log_file) = ChainValid
    /\ \E position \in DOMAIN log_file,
          field \in {"entry_id", "timestamp", "event_type", "data",
                     "parent_hash", "entry_hash"} :
       \E value \in FieldValues(field) :
        /\ value # log_file[position][field]
        /\ log_file' = [log_file EXCEPT ![position][field] = value]
        /\ tampering' = [done |-> TRUE, position |-> position, field |-> field]
    /\ verify_result' = NotVerified
    /\ UNCHANGED <<last_hash, clock, opened_at>>
    /\ UNCHANGED <<plannerVars, actorVars, analyzeVars, recipeVars, libraryVars>>

VerifyChain ==
    /\ verify_result = NotVerified
    /\ verify_result' = verify_chain(log_file)
    /\ UNCHANGED <<log_file, last_hash, clock, tampering, opened_at>>
    /\ UNCHANGED <<plannerVars, actorVars, analyzeVars, recipeVars, libraryVars>>

LogNext == LogAppend \/ Tamper \/ VerifyChain

SpecLog == LogInit /\ [][LogNext]_vars

-----------------------------------------------------------------------------
(* Lines taken out of the stored file of a valid log.                      *)

\* The file without its line at position.
WithoutLine(file, position) ==
    SubSeq(file, 1, position - 1) \o SubSeq(file, position + 1, Len(file))

\* Someone edits the file of a valid non-empty log: one line that is not
\* the last is deleted, or the last k lines are cut off. tampering.position
\* is the first line that is gone.
RemoveEntries ==
    /\ ~tampering.done
    /\ log_file # <<>>
    /\ verify_chain(log_file) = ChainValid
    /\ \/ \E position \in 1..(Len(log_file) - 1) :
            /\ log_file' = WithoutLine(log_file, position)
            /\ tampering' = [done |-> TRUE, position |-> position, field |-> "deleted"]
       \/ \E k \in 1..Len(log_file) :
            /\ log_file' = SubSeq(log_file, 1, Len(log_file) - k)
            /\ tampering' = [done |-> TRUE, position |-> Len(log_file) - k + 1,
                             field |-> "truncated"]
    /\ verify_result' = NotVerified
    /\ UNCHANGED <<last_hash, clock, opened_at>>
    /\ UNCHANGED <<plannerVars, actorVars, analyzeVars, recipeVars, libraryVars>>

RemovalNext == LogAppend \/ RemoveEntries \/ VerifyChain

SpecRemoval == LogInit /\ [][RemovalNext]_vars

-----------------------------------------------------------------------------
(* Several MerkleLog instances on one file: each is constructed at some    *)
(* time and appends; no two calls overlap.                                 *)

SharedPayloads == {PlainPayload, TuplePayload, BigPayload}

SharedInit ==
    /\ PlannerIdle /\ ActorIdle /\ AnalyzeIdle
    /\ log_file = <<>>
    /\ last_hash = [i \in Instances |-> NoHash]
    /\ clock = 0
    /\ tampering = NoTampering
    /\ verify_result = NotVerified
    /\ opened_at = [i \in Instances |-> -1]

\* MerkleLog(log_path): the constructor loads the last hash of the file.
Open ==
    /\ \E i \in Instances :
        /\ opened_at[i] = -1
        /\ last_hash' = [last_hash EXCEPT ![i] = _load_last_hash(log_file)]
        /\ opened_at' = [opened_at EXCEPT ![i] = Len(log_file)]
    /\ UNCHANGED <<log_file, clock, tampering, verify_result>>
    /\ UNCHANGED <<plannerVars, actorVars, analyzeVars, recipeVars, libraryVars>>

\* append through an instance that was constructed, as one step.
SharedAppend ==
    /\ Len(log_file) < MaxAppends
    /\ \E i \in Instances, entry_id \in EntryIds, data \in SharedPayloads :
        /\ opened_at[i] # -1
        /\ LET r == append(log_file, last_hash[i], entry_id, REQUEST_SUBMITTED,
                           data, clock + 1)
           IN /\ log_file' = r.file
              /\ last_hash' = [last_hash EXCEPT ![i] = r.last_hash]
    /\ clock' = clock + 1
    /\ verify_result' = NotVerified
    /\ UNCHANGED <<tampering, opened_at>>
    /\ UNCHANGED <<plannerVars, actorVars, analyzeVars, recipeVars, libraryVars>>

SharedNext == Open \/ SharedAppend \/ VerifyChain

SpecShared == SharedInit /\ [][SharedNext]_vars

-----------------------------------------------------------------------------
(* The RecipeStore's calls as actions.                                     *)

Fingerprints == {"fp-sales", "fp-users"}
Intents == {"Analyze sales", "Analyze revenue", "Plot churn"}

RecipeInit == PlannerIdle /\ ActorIdle /\ LogIdle /\ AnalyzeIdle

\* The calls that write read the clock once, a tick after the last reading.
SaveRecipe ==
    /\ Len(recipe_store) < MaxRecipes
    /\ \E schema_fingerprint \in Fingerprints, intent \in Intents :
        recipe_store' = save_recipe(recipe_store, Uuid4(uuid_count + 1),
                                    schema_fingerprint, intent, "{'steps': []}",
                                    clock + 1)
    /\ uuid_count' = uuid_count + 1
    /\ clock' = clock + 1
    /\ retrieved' = NoRetrieval
    /\ UNCHANGED <<operations, constraints, plan, plan_error, last_call>>
    /\ UNCHANGED <<log_file, last_hash, tampering, verify_result, opened_at>>
    /\ UNCHANGED <<actorVars, analyzeVars, libraryVars>>

\* clock - Len(recipe_store) is the number of update_success_count calls
\* made so far.
UpdateSuccessCount ==
    /\ clock - Len(recipe_store) < MaxReuses
    /\ \E i \in DOMAIN recipe_store :
        recipe_store' = update_success_count(recipe_store, recipe_store[i].recipe_id,
                                             clock + 1)
    /\ clock' = clock + 1
    /\ retrieved' = NoRetrieval
    /\ UNCHANGED <<log_file, last_hash, tampering, verify_result, opened_at>>
    /\ UNCHANGED <<plannerVars, actorVars, analyzeVars, libraryVars>>

\* One retrieval on each state of the table: retrieve_recipes writes
\* nothing, so a second one reaches no state the first does not.
RetrieveRecipes ==
    /\ retrieved = NoRetrieval
    /\ \E schema_fingerprint \in Fingerprints, intent \in Intents, top_k \in 0..MaxTopK :
        retrieved' = [schema_fingerprint |-> schema_fingerprint, intent |-> intent,
                      top_k |-> top_k,
                      results |-> retrieve_recipes(recipe_store, schema_fingerprint,
                                                   intent, top_k)]
    /\ UNCHANGED recipe_store
    /\ UNCHANGED <<plannerVars, actorVars, logVars, analyzeVars, libraryVars>>

RecipeNext == SaveRecipe \/ UpdateSuccessCount \/ RetrieveRecipes

SpecRecipes == RecipeInit /\ [][RecipeNext]_vars

-----------------------------------------------------------------------------
(* update_success_count called by several requests at the same time. Each  *)
(* call opens its own connection to the one database file; SQLite lets one *)
(* connection at a time hold the write lock of the file, from the start of *)
(* a writing statement to the commit of its transaction, and the others    *)
(* see committed rows only.                                                *)

\* The UPDATE starts without asking for the write lock.
write_lock_free_unchecked(lock, w) == TRUE

\* conn.execute("UPDATE ..."): the statement starts when no other
\* connection holds the write lock.
write_lock_free(lock, w) == lock = 0 \/ lock = w

\* SET success_count = success_count + 1, last_used_at = ? WHERE
\* recipe_id = ?: the row the statement writes into its transaction, read
\* from the committed table; NoRow when no row has the id.
updated_row(store, recipe_id, now) ==
    IF \E i \in DOMAIN store : store[i].recipe_id = recipe_id
    THEN LET row == store[CHOOSE i \in DOMAIN store : store[i].recipe_id = recipe_id]
         IN [row EXCEPT !.success_count = @ + 1, !.last_used_at = now]
    ELSE NoRow

\* conn.commit(): the transaction's row replaces the stored one.
committed(store, row) ==
    [i \in DOMAIN store |-> IF store[i].recipe_id = row.recipe_id THEN row ELSE store[i]]

\* Two recipes saved one after the other, none reused yet.
ConcurrentInit ==
    /\ PlannerIdle /\ ActorIdle /\ LogIdle
    /\ intent_parser = "None" /\ NoCallYet /\ LibraryIdle
    /\ recipe_store =
            save_recipe(save_recipe(<<>>, Uuid4(1), "fp-sales", "Analyze sales",
                                    "{'steps': []}", 1),
                        Uuid4(2), "fp-sales", "Analyze revenue", "{'steps': []}", 2)
    /\ retrieved = NoRetrieval

ConcurrentOthersUnchanged ==
    UNCHANGED <<plannerVars, actorVars, logVars, analyzeVars, retrieved,
                fingerprintVars, policyVars, sandboxVars, traceVars>>

\* A caller enters update_success_count: it reads the clock and connects.
\* Len(recipe_store) + calls entered so far is the last reading handed out.
Connect(w) ==
    /\ connections[w].pc = "idle"
    /\ \E i \in DOMAIN recipe_store :
        LET entered == Cardinality({v \in Writers : connections[v].pc # "idle"})
        IN connections' =
            [connections EXCEPT ![w] =
                Connection("connected", recipe_store[i].recipe_id,
                           Len(recipe_store) + entered + 1, NoRow, 0)]
    /\ UNCHANGED <<recipe_store, db_lock, commits>>
    /\ ConcurrentOthersUnchanged

\* conn.execute: the UPDATE takes the write lock and runs.
Execute(w) ==
    /\ connections[w].pc = "connected"
    /\ write_lock_free(db_lock, w)
    /\ db_lock' = w
    /\ connections' =
            [connections EXCEPT ![w].pc = "executed",
                                ![w].pending = updated_row(recipe_store,
                                                           connections[w].recipe_id,
                                                           connections[w].now)]
    /\ UNCHANGED <<recipe_store, commits>>
    /\ ConcurrentOthersUnchanged

\* conn.execute raises sqlite3.OperationalError (database is locked) while
\* another connection holds the write lock; finally: conn.close().
Busy(w) ==
    /\ connections[w].pc = "connected"
    /\ ~write_lock_free(db_lock, w)
    /\ connections' = [connections EXCEPT ![w].pc = "raised"]
    /\ UNCHANGED <<recipe_store, db_lock, commits>>
    /\ ConcurrentOthersUnchanged

\* conn.commit(); finally: conn.close(). The call returns.
Commit(w) ==
    /\ connections[w].pc = "executed"
    /\ recipe_store' = IF connections[w].pending = NoRow THEN recipe_store
                       ELSE committed(recipe_store, connections[w].pending)
    /\ db_lock' = 0
    /\ commits' = commits + 1
    /\ connections' = [connections EXCEPT ![w].pc = "closed", ![w].seq = commits + 1]
    /\ ConcurrentOthersUnchanged

ConcurrentNext ==
    \E w \in Writers : Connect(w) \/ Execute(w) \/ Busy(w) \/ Commit(w)

SpecConcurrent == ConcurrentInit /\ [][ConcurrentNext]_vars

-----------------------------------------------------------------------------
(* compute_fingerprint applied to two schemas.                             *)

\* Columns dicts: distinct names, at most MaxColumns of them.
ColumnDicts ==
    LET names == {ColumnNames[i] : i \in DOMAIN ColumnNames}
    IN UNION {{c \in [1..n -> names \X Dtypes] :
                  \A i, j \in 1..n : i # j => c[i][1] # c[j][1]} :
              n \in 1..MaxColumns}

\* A schema as read from a source: the columns, the name of the table and
\* the rows it held.
SchemaSources(tables, rowsets) ==
    {[columns |-> c, table_name |-> t, rows |-> r] :
        c \in ColumnDicts, t \in tables, r \in rowsets}

FingerprintInit ==
    /\ PlannerIdle /\ ActorIdle /\ LogIdle
    /\ intent_parser = "None" /\ NoCallYet /\ RecipeIdle /\ PolicyIdle /\ SandboxIdle
    /\ ConnectionsIdle /\ TraceIdle
    /\ schemas \in SchemaSources({"sales"}, {"rows-1"})
                     \X SchemaSources({"sales", "orders"}, {"rows-1", "rows-2"})
    /\ fingerprints = <<>>

ComputeFingerprints ==
    /\ fingerprints = <<>>
    /\ fingerprints' = [i \in DOMAIN schemas |->
                            compute_fingerprint(schemas[i].columns, schemas[i].table_name)]
    /\ UNCHANGED schemas
    /\ UNCHANGED <<plannerVars, actorVars, logVars, analyzeVars, recipeVars, policyVars,
                   sandboxVars, connectionVars, traceVars>>

SpecFingerprint == FingerprintInit /\ [][ComputeFingerprints]_vars

-----------------------------------------------------------------------------
(* check_query applied to one query.                                       *)

\* The pieces queries are built from: a word that is no keyword, a keyword
\* in mixed case, a word character, a blank, a semicolon, a comment marker.
QueryPieces == {"select", "Drop", "_", " ", ";", "--"}

DropTableUsers == <<"DROP", " ", "TABLE", " ", "users">>

SelectThenDrop ==
    <<"SELECT", " ", "*", " ", "FROM", " ", "users", ";", " ",
      "DROP", " ", "TABLE", " ", "users", ";">>

Queries ==
    UNION {[1..n -> QueryPieces] : n \in 0..MaxQueryLen}
    \cup {DropTableUsers, SelectThenDrop}

PolicyInit ==
    /\ PlannerIdle /\ ActorIdle /\ LogIdle
    /\ intent_parser = "None" /\ NoCallYet /\ RecipeIdle /\ FingerprintIdle /\ SandboxIdle
    /\ ConnectionsIdle /\ TraceIdle
    /\ sql_query \in Queries
    /\ policy_result = NoPolicyResult

CheckQuery ==
    /\ policy_result = NoPolicyResult
    /\ policy_result' = check_query(sql_query)
    /\ UNCHANGED sql_query
    /\ UNCHANGED <<plannerVars, actorVars, logVars, analyzeVars, recipeVars,
                   fingerprintVars, sandboxVars, connectionVars, traceVars>>

SpecPolicy == PolicyInit /\ [][CheckQuery]_vars

-----------------------------------------------------------------------------
(* SandboxExecutor.execute_in_sandbox (sandbox.py) as actions, with time   *)
(* passing in tenths of a second.                                          *)

\* int(seconds), in tenths of a second.
IntSeconds(tenths) == (tenths \div 10) * 10

\* f"Timeout exceeded: {self.quota.max_execution_seconds}s"
TimeoutViolation == "Timeout exceeded"

MemoryViolation == "Memory usage exceeded limit"

SandboxInit ==
    /\ PlannerIdle /\ ActorIdle /\ LogIdle
    /\ intent_parser = "None" /\ NoCallYet /\ RecipeIdle
    /\ FingerprintIdle /\ PolicyIdle /\ ConnectionsIdle /\ TraceIdle
    /\ sandbox_quota \in 1..MaxQuotaTenths
    /\ func \in [runtime : 1..MaxRuntimeTenths, ends : {"returns", "raises"}]
    /\ sandbox_pc = "idle"
    /\ elapsed = 0
    /\ alarm_at = 0
    /\ sandbox_result = NoSandboxResult

SandboxOthersUnchanged ==
    UNCHANGED <<plannerVars, actorVars, logVars, analyzeVars, recipeVars,
                fingerprintVars, policyVars, connectionVars, traceVars>>

\* execute_in_sandbox up to the call of func: _timeout_handler installs the
\* handler and calls signal.alarm(int(seconds)); alarm(0) schedules nothing.
SandboxEnter ==
    /\ sandbox_pc = "idle"
    /\ sandbox_pc' = "running"
    /\ alarm_at' = IntSeconds(sandbox_quota)
    /\ UNCHANGED <<sandbox_quota, func, elapsed, sandbox_result>>
    /\ SandboxOthersUnchanged

\* A tenth of a second passes inside the with block, nothing being due.
Tick ==
    /\ sandbox_pc \in {"running", "sampling"}
    /\ elapsed < func.runtime + (IF sandbox_pc = "sampling" THEN 1 ELSE 0)
    /\ alarm_at = 0 \/ elapsed < alarm_at
    /\ elapsed' = elapsed + 1
    /\ UNCHANGED <<sandbox_quota, func, sandbox_pc, alarm_at, sandbox_result>>
    /\ SandboxOthersUnchanged

\* SIGALRM is delivered: timeout_handler raises SandboxTimeoutError inside
\* the with block, the finally clause clears the alarm and the except
\* clause records the timeout.
AlarmFires ==
    /\ sandbox_pc \in {"running", "sampling"}
    /\ alarm_at > 0
    /\ elapsed = alarm_at
    /\ sandbox_result' = SandboxResult(FALSE, sandbox_result.result, "Execution timeout",
                                       sandbox_result.violations \cup {TimeoutViolation})
    /\ alarm_at' = 0
    /\ sandbox_pc' = "returned"
    /\ UNCHANGED <<sandbox_quota, func, elapsed>>
    /\ SandboxOthersUnchanged

\* func ends: with an exception (except Exception), or with its result,
\* after which memory is read and compared with the quota.
FuncEnds ==
    /\ sandbox_pc = "running"
    /\ elapsed = func.runtime
    /\ IF func.ends = "raises"
       THEN /\ sandbox_result' = SandboxResult(FALSE, "None", "Execution error", {})
            /\ alarm_at' = 0
            /\ sandbox_pc' = "returned"
       ELSE /\ \E memory_exceeded \in BOOLEAN :
                sandbox_result' =
                    SandboxResult(FALSE, "done", "None",
                                  IF memory_exceeded THEN {MemoryViolation} ELSE {})
            /\ sandbox_pc' = "sampling"
            /\ UNCHANGED alarm_at
    /\ UNCHANGED <<sandbox_quota, func, elapsed>>
    /\ SandboxOthersUnchanged

\* cpu_percent(interval=0.1) returns, success = True, the with block is
\* left and the alarm cleared.
SampleEnds ==
    /\ sandbox_pc = "sampling"
    /\ elapsed = func.runtime + 1
    /\ sandbox_result' = [sandbox_result EXCEPT !.success = TRUE]
    /\ alarm_at' = 0
    /\ sandbox_pc' = "returned"
    /\ UNCHANGED <<sandbox_quota, func, elapsed>>
    /\ SandboxOthersUnchanged

SandboxNext == SandboxEnter \/ Tick \/ AlarmFires \/ FuncEnds \/ SampleEnds

SpecSandbox == SandboxInit /\ [][SandboxNext]_vars

-----------------------------------------------------------------------------
(* DataAgent.analyze (agent.py) as actions: the call up to the step loop,  *)
(* one turn of the loop, and the end of the call.                          *)

\* Requests: with or without a chart among the deliverables, with or
\* without constraints.
Requests ==
    {AnalysisRequest("req-1", "Analyze sales", data_sources, cs, deliverables) :
        data_sources \in {<<>>, <<"sales.csv">>},
        cs \in ConstraintLists, deliverables \in {<<>>, <<"chart">>}}

QueryData == <<"Query", " ", "data">>
AggregateData == <<"Aggregate", " ", "data">>
TransformData == <<"Transform", " ", "data">>
GenerateOutput == <<"Generate", " ", "output">>

\* The operations analyze plans with when it has no intent parser.
FallbackOperations(req) ==
    <<Str(QueryData)>> \o
    (IF \E i \in DOMAIN req.deliverables : req.deliverables[i] = "chart"
     THEN <<Str(AggregateData), Str(CreateChart)>>
     ELSE <<Str(TransformData), Str(GenerateOutput)>>)

DropUsersQuery ==
    <<"SELECT", " ", "*", " ", "FROM", " ", "users", ";", " ",
      "DROP", " ", "TABLE", " ", "users">>

\* Operation lists a parsed intent can hold: operations "a" and "b" in
\* either order, each depending on any of the two, and a single query that
\* carries a DROP statement.
ParsedDepLists == {d \in DepLists : \A i \in DOMAIN d : d[i] \in {"a", "b"}}

RECURSIVE ParsedListsOver(_)
ParsedListsOver(ids) ==
    {<<>>} \cup
    UNION {{<<Operation(id, DescriptionOf[id], d)>> \o rest :
                d \in ParsedDepLists, rest \in ParsedListsOver(ids \ {id})} :
           id \in ids}

ParsedOperationLists ==
    ParsedListsOver({"a", "b"}) \cup {<<Operation("q", DropUsersQuery, <<>>)>>}

\* What self.intent_parser.parse(intent=..., data_sources=...) does: it
\* raises (IntentParser.parse takes no data_sources keyword, so the call as
\* written raises TypeError; so does a failed API call), or, for a parser
\* that takes these keywords, it returns a ParsedIntent.
ParseOutcomes ==
    {[kind |-> "raise", operations |-> <<>>,
      message |-> "parse() got an unexpected keyword argument 'data_sources'"]}
    \cup {[kind |-> "return", operations |-> ops, message |-> ""] :
            ops \in ParsedOperationLists}

NoParse == [kind |-> "none", operations |-> <<>>, message |-> ""]

\* str(e) of the ValueError build_plan raises.
BuildPlanMessage(error) ==
    CASE error = "invalid_reference" -> "Operation has invalid dependency reference"
      [] error = "invalid_dependency" -> "Step has invalid dependency"
      [] error = "cycle" -> "Plan contains cycle - DAG validation failed"

\* What the tools do in one execute_step call: succeed, succeed on the
\* second attempt, fail for good, or time out at every attempt.
AnalyzeScripts ==
    {<<Return(DataFrame(2, 2))>>,
     <<ConnectionTimeout, Return(DataFrame(2, 2))>>,
     <<InvalidOperation>>,
     <<ConnectionTimeout>>}

\* The AuditTracer's log, through MerkleLog instance "A".
Audit == [file |-> log_file, last_hash |-> last_hash["A"], clock |-> clock]

WriteAudit(audit) ==
    /\ log_file' = audit.file
    /\ last_hash' = [last_hash EXCEPT !["A"] = audit.last_hash]
    /\ clock' = audit.clock
    /\ UNCHANGED <<tampering, verify_result, opened_at>>

\* except Exception (agent.py:402): log_error and the FAILURE response.
AnalyzeRaised(audit, req, message) ==
    /\ WriteAudit(log_error(audit, Uuid4(uuid_count + 1), "orchestration_error",
                            message, req.request_id))
    /\ uuid_count' = uuid_count + 1
    /\ response' = AnalysisResponse(req.request_id, FAILURE, <<>>, 0, 0, "None", message)
    /\ pc' = "done"

AnalyzeInit ==
    /\ PlannerIdle
    /\ tool_registry \in {ToolType, ToolType \ {SQL_RUNNER}}
    /\ execution_history = <<>>
    /\ tool_call = NoToolCall
    /\ max_retries = NoneArg
    /\ tool_script = <<>>
    /\ returned = NoObservation
    /\ invocations = 0
    /\ calls_made = 0
    /\ LogIdle
    /\ intent_parser \in {"None", "IntentParser"}
    /\ NoCallYet
    /\ RecipeIdle
    /\ LibraryIdle

\* analyze from its first line to the step loop: log_request, planning,
\* log_plan; what planning raises ends the call with a FAILURE response.
\* The recipe lookup in between (agent.py:226-250) collects the non-None
\* fingerprints of the data sources and retrieves only when there is one;
\* _get_schema_fingerprint returns None, so the list is empty and nothing
\* is retrieved.
AnalyzeStart ==
    /\ pc = "idle"
    /\ \E req \in Requests :
       \E parsed \in IF intent_parser = "None" THEN {NoParse} ELSE ParseOutcomes :
        LET audit == log_request(Audit, req.request_id, req.intent, req.data_sources)
            ops == IF intent_parser = "None" THEN FallbackOperations(req)
                   ELSE parsed.operations
            built == build_plan(ops, req.constraints)
        IN /\ request' = req
           /\ IF parsed.kind = "raise"
              THEN /\ AnalyzeRaised(audit, req, parsed.message)
                   /\ UNCHANGED <<operations, constraints, plan, plan_error,
                                   last_call, step_index>>
              ELSE /\ operations' = ops
                   /\ constraints' = req.constraints
                   /\ plan' = built.plan
                   /\ plan_error' = built.error
                   /\ last_call' = "build_plan"
                   /\ IF built.error # "none"
                      THEN /\ AnalyzeRaised(audit, req, BuildPlanMessage(built.error))
                           /\ UNCHANGED step_index
                      ELSE /\ WriteAudit(log_plan(audit, req.request_id, "plan",
                                                  Len(built.plan.steps),
                                                  built.plan.total_cost))
                           /\ pc' = "loop"
                           /\ step_index' = 1
                           /\ UNCHANGED <<uuid_count, response>>
    /\ UNCHANGED <<execution_context, failed_steps, artifacts, executed,
                   tool_invocations, intent_parser>>
    /\ UNCHANGED <<actorVars, recipeVars, libraryVars>>

\* _create_artifact for a result that is not None.
_create_artifact(request_id, step_id, result) ==
    [artifact_id |-> request_id \o "-" \o step_id \o "-artifact",
     artifact_type |-> IF result.kind = "DataFrame" THEN "table" ELSE "data",
     step_id |-> step_id]

\* One turn of the step loop: execute_step, log_observation, and the
\* bookkeeping of the result.
AnalyzeStep ==
    /\ pc = "loop"
    /\ step_index <= Len(plan.steps)
    /\ \E script \in AnalyzeScripts :
        LET step == plan.steps[step_index]
            r == execute_step(step, tool_registry, script, execution_history)
            observation == r.observation
        IN /\ executed' = Append(executed, step.step_id)
           /\ tool_invocations' =
                tool_invocations \o [k \in 1..r.invocations |-> r.tool_call]
           /\ execution_history' = r.history
           /\ tool_call' = r.tool_call
           /\ tool_script' = IF r.invocations = 0 THEN <<>> ELSE script
           /\ invocations' = r.invocations
           /\ calls_made' = IF r.tool_call = NoToolCall THEN calls_made
                            ELSE calls_made + 1
           /\ returned' = observation
           /\ IF r.raised
              THEN /\ AnalyzeRaised(Audit, request, "execute_step raised")
                   /\ UNCHANGED <<execution_context, artifacts, failed_steps, step_index>>
              ELSE /\ WriteAudit(log_observation(Audit, Uuid4(uuid_count + 1),
                                                 step.step_id \o "-call",
                                                 observation.status,
                                                 observation.error_message))
                   /\ uuid_count' = uuid_count + 1
                   /\ IF is_success(observation)
                      THEN /\ execution_context' = execution_context \cup
                                {<<"step_" \o step.step_id \o "_result", observation.result>>}
                           /\ artifacts' =
                                IF observation.result # NoResult
                                THEN Append(artifacts,
                                            _create_artifact(request.request_id,
                                                             step.step_id,
                                                             observation.result))
                                ELSE artifacts
                           /\ UNCHANGED failed_steps
                      ELSE /\ failed_steps' = Append(failed_steps,
                                [step_id |-> step.step_id, operation |-> step.operation,
                                 error |-> observation.error_message,
                                 retry_count |-> observation.retry_count])
                           /\ UNCHANGED <<execution_context, artifacts>>
                   /\ step_index' = step_index + 1
                   /\ UNCHANGED <<pc, response>>
    /\ UNCHANGED <<tool_registry, max_retries>>
    /\ UNCHANGED <<operations, constraints, plan, plan_error, last_call>>
    /\ UNCHANGED <<intent_parser, request, recipeVars, libraryVars>>

\* The status with the boundary of PARTIAL misplaced: all steps failed
\* still counts as PARTIAL.
overall_status_partial_when_all_failed(total_steps, failed_count) ==
    IF failed_count = 0 THEN SUCCESS
    ELSE IF failed_count <= total_steps THEN PARTIAL
    ELSE FAILURE

\* "Determine overall status" (agent.py:334-343).
overall_status(total_steps, failed_count) ==
    IF failed_count = 0 THEN SUCCESS
    ELSE IF failed_count < total_steps THEN PARTIAL
    ELSE FAILURE

NoFingerprint == "None"

\* _get_schema_fingerprint: schema discovery is not implemented, the
\* method returns None for every data source.
_get_schema_fingerprint(data_source) == NoFingerprint

\* json.dumps({"steps": [s.operation for s in plan.steps]})
PlanStructure(p) ==
    "{'steps': [" \o JsonList([i \in DOMAIN p.steps |-> Joined(p.steps[i].operation)])
    \o "]}"

\* After the loop: the status, the recipe of a successful analysis (saved
\* when the first data source has a fingerprint), log_completion and the
\* response.
AnalyzeFinish ==
    /\ pc = "loop"
    /\ step_index > Len(plan.steps)
    /\ LET total_steps == Len(plan.steps)
           failed_count == Len(failed_steps)
           status == overall_status(total_steps, failed_count)
           schema_fp == IF status = SUCCESS /\ request.data_sources # <<>>
                        THEN _get_schema_fingerprint(request.data_sources[1])
                        ELSE NoFingerprint
           saving == schema_fp # NoFingerprint
           recipe_id == Uuid4(uuid_count + 1)
           audit == IF saving
                    THEN log_recipe_storage(Audit, recipe_id, schema_fp, "plan")
                    ELSE Audit
       IN /\ recipe_store' =
                IF saving
                THEN save_recipe(recipe_store, recipe_id, schema_fp, request.intent,
                                 PlanStructure(plan), clock)
                ELSE recipe_store
          /\ retrieved' = IF saving THEN NoRetrieval ELSE retrieved
          /\ uuid_count' = IF saving THEN uuid_count + 1 ELSE uuid_count
          /\ WriteAudit(log_completion(audit, request.request_id, status,
                                       Len(artifacts)))
          /\ response' = AnalysisResponse(request.request_id, status, artifacts,
                                          total_steps, failed_count, "plan",
                                          IF failed_count > 0 THEN "step(s) failed"
                                          ELSE "None")
    /\ pc' = "done"
    /\ UNCHANGED <<intent_parser, request, step_index, execution_context,
                   failed_steps, artifacts, executed, tool_invocations>>
    /\ UNCHANGED <<operations, constraints, plan, plan_error, last_call>>
    /\ UNCHANGED <<actorVars, libraryVars>>

AnalyzeNext == AnalyzeStart \/ AnalyzeStep \/ AnalyzeFinish

SpecAnalyze == AnalyzeInit /\ [][AnalyzeNext]_vars

-----------------------------------------------------------------------------
(* The AuditTracer's calls as DataAgent.analyze makes them for one request *)
(* after the other (analyze is synchronous), and get_request_trace.        *)

\* AuditTracer.get_request_trace
get_request_trace(file, request_id) == get_entries(file, "", request_id, 0)

TraceInit == PlannerIdle /\ ActorIdle /\ LogIdle /\ AnalyzeIdle

\* The request analyze is handling, if any.
InAnalyze(r) == trace_pc[r] \in {"requested", "planned"}

\* The observation entries written for request r.
ObservationsOf(r) ==
    {i \in DOMAIN log_file : written_for[i] = r
                             /\ log_file[i].event_type = OBSERVATION_RECORDED}

TraceOthersUnchanged ==
    UNCHANGED <<operations, constraints, plan, plan_error, last_call,
                actorVars, analyzeVars, recipeVars,
                fingerprintVars, policyVars, sandboxVars, connectionVars>>

\* agent.py:213: analyze is entered with request r and logs it.
TraceRequest(r) ==
    /\ trace_pc[r] = "new"
    /\ \A q \in TraceRequestIds : ~InAnalyze(q)
    /\ WriteAudit(log_request(Audit, r, "Analyze sales", <<>>))
    /\ written_for' = Append(written_for, r)
    /\ trace_pc' = [trace_pc EXCEPT ![r] = "requested"]
    /\ request_trace' = NoTrace
    /\ UNCHANGED uuid_count
    /\ TraceOthersUnchanged

\* agent.py:285: the plan was built and is logged.
TracePlan(r) ==
    /\ trace_pc[r] = "requested"
    /\ WriteAudit(log_plan(Audit, r, "plan", MaxObservations, 0))
    /\ written_for' = Append(written_for, r)
    /\ trace_pc' = [trace_pc EXCEPT ![r] = "planned"]
    /\ request_trace' = NoTrace
    /\ UNCHANGED uuid_count
    /\ TraceOthersUnchanged

\* agent.py:305: a step ran and its observation is logged under a fresh
\* uuid4.
TraceObservation(r) ==
    /\ trace_pc[r] = "planned"
    /\ Cardinality(ObservationsOf(r)) < MaxObservations
    /\ \E status \in {SUCCESS, FAILURE} :
        WriteAudit(log_observation(Audit, Uuid4(uuid_count + 1), "s1-call", status,
                                   IF status = FAILURE
                                   THEN <<"ValueError: Invalid operation">>
                                   ELSE NoText))
    /\ uuid_count' = uuid_count + 1
    /\ written_for' = Append(written_for, r)
    /\ request_trace' = NoTrace
    /\ UNCHANGED trace_pc
    /\ TraceOthersUnchanged

\* agent.py:402: something raised; the error is logged under a fresh uuid4
\* and analyze returns.
TraceError(r) ==
    /\ InAnalyze(r)
    /\ WriteAudit(log_error(Audit, Uuid4(uuid_count + 1), "orchestration_error",
                            "Plan contains cycle - DAG validation failed", r))
    /\ uuid_count' = uuid_count + 1
    /\ written_for' = Append(written_for, r)
    /\ trace_pc' = [trace_pc EXCEPT ![r] = "done"]
    /\ request_trace' = NoTrace
    /\ TraceOthersUnchanged

\* agent.py:382: the steps are over; the completion is logged and analyze
\* returns.
TraceCompletion(r) ==
    /\ trace_pc[r] = "planned"
    /\ \E status \in {SUCCESS, PARTIAL} :
        WriteAudit(log_completion(Audit, r, status, 0))
    /\ written_for' = Append(written_for, r)
    /\ trace_pc' = [trace_pc EXCEPT ![r] = "done"]
    /\ request_trace' = NoTrace
    /\ UNCHANGED uuid_count
    /\ TraceOthersUnchanged

\* DataAgent.get_request_trace(r), between analyze calls. The list a call
\* returned is kept until the log is written to again.
GetRequestTrace(r) ==
    /\ request_trace = NoTrace
    /\ \A q \in TraceRequestIds : ~InAnalyze(q)
    /\ request_trace' = [request_id |-> r, entries |-> get_request_trace(log_file, r)]
    /\ UNCHANGED <<written_for, trace_pc, uuid_count, logVars>>
    /\ TraceOthersUnchanged

TraceNext ==
    \E r \in TraceRequestIds :
        \/ TraceRequest(r) \/ TracePlan(r) \/ TraceObservation(r)
        \/ TraceError(r) \/ TraceCompletion(r) \/ GetRequestTrace(r)

SpecTrace == TraceInit /\ [][TraceNext]_vars

-----------------------------------------------------------------------------
(* Claims about the planner.                                               *)

\* The ids reachable from the ids in S along at most n dependency edges of
\* the graph `edges` (a set of <<from, to>> pairs).
RECURSIVE ReachableWithin(_, _, _)
ReachableWithin(edges, S, n) ==
    IF n = 0 THEN S
    ELSE ReachableWithin(edges, S \cup {e[2] : e \in {f \in edges : f[1] \in S}}, n - 1)

Successors(edges, id) == {e[2] : e \in {f \in edges : f[1] = id}}

HasCycle(edges) ==
    \E e \in edges :
        e[1] \in ReachableWithin(edges, Successors(edges, e[1]), Cardinality(edges))

StepEdges(steps) ==
    UNION {{<<steps[i].step_id, steps[i].dependencies[k]>> :
                k \in DOMAIN steps[i].dependencies} : i \in DOMAIN steps}

PlanIsDag(p) ==
    /\ \A i \in DOMAIN p.steps : \A k \in DOMAIN p.steps[i].dependencies :
            \E j \in DOMAIN p.steps : p.steps[j].step_id = p.steps[i].dependencies[k]
    /\ ~HasCycle(StepEdges(p.steps))

\* C1: every Plan returned by build_plan or by a sequence of add_step calls
\* applied to it is acyclic, and every dependency id of every step is the
\* step_id of a step of the same plan.
C1_ReturnedPlanIsDag == ~plan.none => PlanIsDag(plan)

\* C1 witness: add_step returned a plan of at least three steps in which a
\* step of the original plan and the added step both have dependencies.
C1_Witness ==
    /\ last_call = "add_step" /\ plan_error = "none" /\ Len(plan.steps) >= 3
    /\ plan.steps[2].dependencies # <<>>
    /\ plan.steps[Len(plan.steps)].dependencies # <<>>

OperationMode == operations # <<>> /\ IsOperation(operations[1])

DeclaredIds == {operations[i].id : i \in DOMAIN operations}

DeclaredEdges ==
    UNION {{<<operations[i].id, operations[i].dependencies[k]>> :
                k \in DOMAIN operations[i].dependencies} : i \in DOMAIN operations}

DeclaredUnknownDependency == \E e \in DeclaredEdges : e[2] \notin DeclaredIds

DeclaredCycle == HasCycle(DeclaredEdges)

\* C2: build_plan raises and returns no Plan whenever an operation declares
\* a dependency id that no operation of the list has, or the declared
\* dependency graph has a cycle (a self-dependency included).
C2_BuildPlanRejects ==
    (last_call = "build_plan" /\ OperationMode
        /\ (DeclaredUnknownDependency \/ DeclaredCycle))
    => (plan.none /\ plan_error # "none")

\* C2 witness: build_plan raised on a list whose only fault is a cycle
\* through two or more operations.
C2_Witness ==
    /\ last_call = "build_plan" /\ OperationMode /\ plan_error = "cycle"
    /\ ~DeclaredUnknownDependency
    /\ \A e \in DeclaredEdges : e[1] # e[2]

-----------------------------------------------------------------------------
(* Claims about execute_with_repair.                                       *)

\* The retry budget of the last call.
RetryBudget == IF max_retries # NoneArg THEN max_retries ELSE MAX_RETRIES

\* The Actor classifies what the tool does at its n-th invocation as a
\* recoverable failure: it raises, and the Observation made of it is
\* recoverable.
RecoverableAt(n) ==
    /\ n \in DOMAIN tool_script
    /\ tool_script[n].kind = "raise"
    /\ is_recoverable(Observation(tool_call.step_id, FAILURE, NoResult,
                                  ErrorMessage(tool_script[n]), n - 1, {}))

NonRecoverableAt(n) ==
    /\ n \in DOMAIN tool_script
    /\ tool_script[n].kind = "raise"
    /\ ~RecoverableAt(n)

SucceedsAt(n) == n \in DOMAIN tool_script /\ tool_script[n].kind = "return"

\* C4: a tool that raises a recoverable error at its first k invocations and
\* succeeds at invocation k+1, k <= max_retries, makes execute_with_repair
\* return SUCCESS with retry_count k after exactly k+1 invocations.
C4_SuccessAfterRetries ==
    \A k \in 0..RetryBudget :
        (calls_made > 0 /\ (\A n \in 1..k : RecoverableAt(n)) /\ SucceedsAt(k + 1))
        => /\ returned.status = SUCCESS
           /\ returned.retry_count = k
           /\ invocations = k + 1

\* C4 witness: two "Connection timeout" failures, then success at the last
\* attempt that max_retries = 2 allows.
C4_Witness ==
    /\ calls_made > 0 /\ max_retries = 2
    /\ RecoverableAt(1) /\ RecoverableAt(2) /\ SucceedsAt(3)
    /\ returned.status = SUCCESS /\ returned.retry_count = 2

\* C5: at a non-recoverable error execute_with_repair stops invoking the tool
\* and returns FAILURE; retry_count is the number of failed attempts before
\* it and the message says non-recoverable, not max retries exceeded.
C5_NonRecoverableStops ==
    \A j \in 1..(RetryBudget + 1) :
        (calls_made > 0 /\ (\A n \in 1..(j - 1) : RecoverableAt(n)) /\ NonRecoverableAt(j))
        => /\ invocations = j
           /\ returned.status = FAILURE
           /\ returned.retry_count = j - 1
           /\ returned.error_message[1] = "Non-recoverable error: "

\* C5 witness: the non-recoverable error came at the last attempt of the
\* budget, after a retried one.
C5_Witness ==
    /\ calls_made > 0 /\ max_retries = 1
    /\ RecoverableAt(1) /\ NonRecoverableAt(2)
    /\ returned.status = FAILURE /\ invocations = 2

\* C6: for every max_retries >= 0 and whatever the tool does,
\* execute_with_repair returns after at most max_retries + 1 invocations; if
\* every attempt fails with a recoverable error it returns FAILURE with
\* retry_count = max_retries and a max-retries-exceeded message.
C6_BoundedRetries ==
    calls_made > 0 =>
        /\ returned # NoObservation
        /\ invocations <= RetryBudget + 1
        /\ ((\A n \in 1..(RetryBudget + 1) : RecoverableAt(n))
            => (/\ returned.status = FAILURE
                /\ returned.retry_count = RetryBudget
                /\ invocations = RetryBudget + 1
                /\ returned.error_message[1] = "Max retries ("
                /\ returned.error_message[2] = ToString(RetryBudget)))

\* C6 witness: max_retries = 0 and the only attempt failed recoverably.
C6_Witness ==
    /\ calls_made > 0 /\ max_retries = 0 /\ RecoverableAt(1)
    /\ returned.status = FAILURE /\ invocations = 1

-----------------------------------------------------------------------------
(* Claims about the MerkleLog.                                             *)

\* C7: after any number of appends through one MerkleLog instance to an
\* initially empty log, the first entry's parent_hash is the genesis
\* constant, every later entry's parent_hash is the entry_hash of the entry
\* before it, and verify_chain returns (True, None).
C7_AppendsKeepChainValid ==
    ~tampering.done =>
        /\ log_file # <<>> => log_file[1].parent_hash = GENESIS_HASH
        /\ \A i \in 2..Len(log_file) :
                log_file[i].parent_hash = log_file[i - 1].entry_hash
        /\ verify_result # NotVerified => verify_result = ChainValid

\* C7 where it holds: verify_chain ran on a log of three appended entries,
\* one of them with a payload that JSON stores in another form, and
\* returned (True, None).
C7_Witness ==
    /\ ~tampering.done /\ Len(log_file) = 3 /\ verify_result = ChainValid
    /\ \E i \in DOMAIN log_file : log_file[i].data = ListPayload

\* C8: once exactly one field of exactly one stored entry of a valid log has
\* been changed to another value, verify_chain returns (False, reason) and
\* the reason names the position of the changed entry.
C8_TamperingDetectedAtPosition ==
    (tampering.done /\ verify_result # NotVerified)
    => /\ ~verify_result.valid
       /\ verify_result.line = tampering.position
       /\ verify_result.kind \in {"chain_break", "hash_mismatch"}
            => verify_result.entry = tampering.position

\* C8 witness: the entry_hash of an entry that is not the last one was
\* changed and verify_chain ran.
C8_Witness ==
    /\ tampering.done /\ tampering.field = "entry_hash"
    /\ tampering.position < Len(log_file)
    /\ verify_result # NotVerified

-----------------------------------------------------------------------------
(* Claims about DataAgent.analyze and the Actor's execute_step.            *)

\* The step of the plan with a given step id.
StepOf(step_id) ==
    plan.steps[CHOOSE i \in DOMAIN plan.steps : plan.steps[i].step_id = step_id]

DisallowedQuerySteps ==
    {k \in DOMAIN executed :
        /\ StepOf(executed[k]).tool = SQL_RUNNER
        /\ ~check_query(StepOf(executed[k]).operation).allowed}

\* C9: a query step whose query text check_query disallows is never
\* executed: the Actor invokes no tool for it and reports the step as
\* failed.
C9_DisallowedQueryNeverInvoked ==
    /\ \A k \in DOMAIN tool_invocations :
            tool_invocations[k].tool_name = SQL_RUNNER
            => check_query(ArgGet(tool_invocations[k].arguments, "query")).allowed
    /\ \A k \in DisallowedQuerySteps :
            \E f \in DOMAIN failed_steps : failed_steps[f].step_id = executed[k]

\* C10: a failed step does not stop the plan: analyze calls execute_step
\* once for every step of the plan, in plan.steps order, whatever the
\* outcomes of the earlier steps.
C10_EveryStepExecutedOnceInOrder ==
    /\ Len(executed) <= Len(plan.steps)
    /\ \A k \in DOMAIN executed : executed[k] = plan.steps[k].step_id
    /\ (pc = "loop") => Len(executed) = step_index - 1
    /\ (pc = "done" /\ ~plan.none) => Len(executed) = Len(plan.steps)

\* C10 witness: analyze ended on a plan of three steps whose first step
\* failed at grounding and whose second step failed in its tool, and all
\* three steps were executed.
C10_Witness ==
    /\ pc = "done" /\ ~plan.none /\ Len(plan.steps) = 3 /\ Len(executed) = 3
    /\ Len(failed_steps) >= 2
    /\ failed_steps[1].step_id = plan.steps[1].step_id
    /\ failed_steps[1].error[1] = "Grounding failed: "
    /\ failed_steps[2].step_id = plan.steps[2].step_id

\* The steps analyze ran that failed: those whose result did not enter the
\* execution context.
FailedStepIds ==
    {executed[k] : k \in DOMAIN executed} \
    {executed[k] : k \in {k \in DOMAIN executed :
        \E kv \in execution_context : kv[1] = "step_" \o executed[k] \o "_result"}}

\* An exception left planning or the step loop: the call's last audit
\* entry is the error entry the handler writes.
ExceptionEscaped ==
    log_file # <<>> /\ log_file[Len(log_file)].event_type = ERROR_OCCURRED

\* C11: the status analyze returns is SUCCESS exactly when no step failed,
\* PARTIAL exactly when at least one but not all steps failed, FAILURE
\* exactly when all steps (at least one) failed or an exception left
\* planning or the step loop; in that case analyze returns a FAILURE
\* response and does not raise.
C11_StatusMatchesFailures ==
    (pc = "done") =>
        LET failed == Cardinality(FailedStepIds)
            total == Len(plan.steps)
        IN /\ response.request_id = request.request_id
           /\ response.status \in {SUCCESS, PARTIAL, FAILURE}
           /\ response.status = SUCCESS <=> (~ExceptionEscaped /\ failed = 0)
           /\ response.status = PARTIAL
                <=> (~ExceptionEscaped /\ 0 < failed /\ failed < total)
           /\ response.status = FAILURE
                <=> (ExceptionEscaped \/ (total > 0 /\ failed = total))

\* C11 witness: analyze ended PARTIAL on a plan of three steps of which
\* two failed.
C11_Witness ==
    /\ pc = "done" /\ response.status = PARTIAL
    /\ Len(plan.steps) = 3 /\ Cardinality(FailedStepIds) = 2

\* The status and the error message of the Observation of the k-th step.
StepFailed(k) ==
    \E f \in DOMAIN failed_steps : failed_steps[f].step_id = plan.steps[k].step_id

StepError(k) ==
    IF StepFailed(k)
    THEN failed_steps[CHOOSE f \in DOMAIN failed_steps :
                        failed_steps[f].step_id = plan.steps[k].step_id].error
    ELSE NoText

\* C12: for an analyze call that finishes without an exception, the audit
\* entries it writes are in the log in the order of the events:
\* request_submitted, plan_created, one observation_recorded per plan step
\* in execution order, analysis_completed last.
C12_AuditEntriesInEventOrder ==
    (pc = "done" /\ ~ExceptionEscaped) =>
        LET n == Len(plan.steps) IN
        /\ Len(log_file) = n + 3
        /\ log_file[1].event_type = REQUEST_SUBMITTED
        /\ log_file[1].entry_id = request.request_id \o "-request"
        /\ log_file[2].event_type = PLAN_CREATED
        /\ \A k \in 1..n :
            /\ log_file[2 + k].event_type = OBSERVATION_RECORDED
            /\ \E u \in 1..uuid_count :
                /\ log_file[2 + k].entry_id = Uuid4(u) \o "-obs"
                /\ log_file[2 + k].data =
                     ObservationData(Uuid4(u), executed[k] \o "-call",
                                     IF StepFailed(k) THEN FAILURE ELSE SUCCESS,
                                     StepError(k))
        /\ log_file[n + 3].event_type = ANALYSIS_COMPLETED
        /\ log_file[n + 3].entry_id = request.request_id \o "-complete"
        /\ \A i \in 1..(n + 2) : log_file[i].timestamp <= log_file[i + 1].timestamp

\* C12 witness: analyze finished a plan of three steps, one of them
\* failed, and wrote six entries.
C12_Witness ==
    /\ pc = "done" /\ ~ExceptionEscaped
    /\ Len(plan.steps) = 3 /\ Len(failed_steps) = 1 /\ Len(log_file) = 6

\* C15: when analyze ends with status SUCCESS for a request that names at
\* least one data source, the executed plan has been saved as a recipe when
\* the response is returned; when the status is not SUCCESS, no recipe is
\* saved.
C15_SuccessfulPlanSavedAsRecipe ==
    pc = "done" =>
        /\ (response.status = SUCCESS /\ request.data_sources # <<>>) =>
                \E i \in DOMAIN recipe_store :
                    /\ recipe_store[i].intent_template = request.intent
                    /\ recipe_store[i].plan_structure = PlanStructure(plan)
        /\ response.status # SUCCESS => recipe_store = <<>>

-----------------------------------------------------------------------------
(* Claims about MerkleLog instances sharing a file.                        *)

\* C13: when separate MerkleLog instances write to one log file and their
\* append calls do not overlap, no two entries are chained to the same
\* parent_hash and verify_chain returns true after every append.
C13_ExclusiveAppendersKeepChain ==
    /\ \A i, j \in DOMAIN log_file :
            i # j => log_file[i].parent_hash # log_file[j].parent_hash
    /\ verify_chain(log_file) = ChainValid

\* The instances whose first append since they were opened on a non-empty
\* log is the last entry of the file.
FirstAppendAfterReopen ==
    {i \in Instances :
        /\ opened_at[i] >= 1
        /\ Len(log_file) = opened_at[i] + 1
        /\ last_hash[i] = log_file[Len(log_file)].entry_hash
        /\ verify_chain(SubSeq(log_file, 1, opened_at[i])) = ChainValid}

\* C14: a MerkleLog instance opened on an existing non-empty valid log
\* chains its first append to the most recently written entry, whatever
\* the size of the stored entries, and the log still verifies.
C14_ReopenedLogChainsToLastEntry ==
    FirstAppendAfterReopen # {} =>
        /\ log_file[Len(log_file)].parent_hash = log_file[Len(log_file) - 1].entry_hash
        /\ verify_chain(log_file) = ChainValid

\* C14 where it holds: an instance opened on a valid log of two short
\* entries appended a third that is chained to the second.
C14_Witness ==
    /\ FirstAppendAfterReopen # {} /\ Len(log_file) = 3
    /\ \A i \in 1..2 : log_file[i].data # BigPayload
    /\ log_file[3].parent_hash = log_file[2].entry_hash

-----------------------------------------------------------------------------
(* Claims about the RecipeStore.                                           *)

\* The similarity of a stored recipe to the intent of the last retrieval.
SimilarityTo(row) == _cosine_similarity(encode(retrieved.intent), row.intent_embedding)

\* The rows the last retrieval's fingerprint matches.
Matching ==
    {i \in DOMAIN recipe_store :
        recipe_store[i].schema_fingerprint = retrieved.schema_fingerprint}

RecipeIds(rows) == [i \in DOMAIN rows |-> rows[i].recipe_id]

\* The table with every recipe as it was saved: never reused.
NeverReused(store) ==
    [i \in DOMAIN store |->
        [store[i] EXCEPT !.success_count = 1, !.last_used_at = store[i].created_at]]

\* C16: retrieve_recipes returns only recipes whose schema_fingerprint
\* equals the query's, at most top_k of them, in order of non-increasing
\* similarity to the query intent; they are the min(top_k, number of
\* matching recipes) most similar ones, and the result is the same whatever
\* the recipes' success_count and last_used_at are.
C16_RetrieveBySchemaThenSimilarity ==
    retrieved # NoRetrieval =>
        LET results == retrieved.results
            ids == {results[i].recipe_id : i \in DOMAIN results}
        IN /\ \A i \in DOMAIN results :
                /\ results[i].schema_fingerprint = retrieved.schema_fingerprint
                /\ \E j \in Matching : recipe_store[j] = results[i]
           /\ Len(results) <= retrieved.top_k
           /\ \A i, j \in DOMAIN results :
                i < j => ~SimLess(SimilarityTo(results[i]), SimilarityTo(results[j]))
           /\ Cardinality(ids) = Len(results)
           /\ Len(results) = IF retrieved.top_k < Cardinality(Matching)
                             THEN retrieved.top_k ELSE Cardinality(Matching)
           /\ \A j \in Matching :
                recipe_store[j].recipe_id \notin ids =>
                    \A i \in DOMAIN results :
                        ~SimLess(SimilarityTo(results[i]), SimilarityTo(recipe_store[j]))
           /\ RecipeIds(retrieve_recipes(NeverReused(recipe_store),
                                         retrieved.schema_fingerprint,
                                         retrieved.intent, retrieved.top_k))
                = RecipeIds(results)

\* A retrieval with top_k below the number of matching recipes: the recipe
\* returned is strictly more similar than the one left out, which was saved
\* first and is the one reused since.
C16_Witness ==
    /\ retrieved # NoRetrieval
    /\ Len(retrieved.results) = 1
    /\ Matching = {1, 2}
    /\ retrieved.results[1] = recipe_store[2]
    /\ SimLess(SimilarityTo(recipe_store[1]), SimilarityTo(recipe_store[2]))
    /\ recipe_store[1].success_count > 1
    /\ recipe_store[1].last_used_at > recipe_store[2].last_used_at

-----------------------------------------------------------------------------
(* Claims about the SchemaFingerprinter.                                   *)

\* The set of (column name, normalized type) pairs of a columns dict.
NormalizedPairs(columns) ==
    {<<columns[i][1], _normalize_type(columns[i][2])>> : i \in DOMAIN columns}

\* C17: two schemas get the same fingerprint if and only if they have the
\* same set of (column name, normalized type) pairs, whatever the order of
\* the columns, the rows and the table name.
C17_FingerprintIffSamePairs ==
    fingerprints # <<>> =>
        (fingerprints[1] = fingerprints[2]
            <=> NormalizedPairs(schemas[1].columns) = NormalizedPairs(schemas[2].columns))

\* The half of C17 that holds: schemas with the same pairs get the same
\* fingerprint.
C17_SamePairsSameFingerprint ==
    (fingerprints # <<>>
     /\ NormalizedPairs(schemas[1].columns) = NormalizedPairs(schemas[2].columns))
        => fingerprints[1] = fingerprints[2]

\* Two schemas with the same pairs that differ in column order, raw type,
\* rows and table name, fingerprinted.
C17_Witness ==
    /\ fingerprints # <<>>
    /\ NormalizedPairs(schemas[1].columns) = NormalizedPairs(schemas[2].columns)
    /\ Len(schemas[1].columns) = 2
    /\ schemas[1].columns[1][1] = schemas[2].columns[2][1]
    /\ schemas[1].columns[1][2] # schemas[2].columns[2][2]
    /\ schemas[1].rows # schemas[2].rows
    /\ schemas[1].table_name # schemas[2].table_name

-----------------------------------------------------------------------------
(* Claims about the SQLPolicyChecker.                                      *)

\* A blocked keyword stands in the query as a whole word, in any letter
\* case.
KeywordAsWholeWord ==
    \E i \in DOMAIN sql_query :
        /\ Upper(sql_query[i]) \in DDL_KEYWORDS \cup DML_KEYWORDS \cup DANGEROUS_KEYWORDS
        /\ i > 1 => sql_query[i - 1] \in NonWordPieces
        /\ i < Len(sql_query) => sql_query[i + 1] \in NonWordPieces

\* A comment marker stands after the start of the statement: something
\* other than blanks comes before it.
CommentMarkerAfterStart ==
    \E i \in DOMAIN sql_query :
        /\ sql_query[i] = "--"
        /\ \E j \in 1..(i - 1) : sql_query[j] # " "

\* A semicolon that is not one of the trailing ones: something other than
\* a semicolon comes after it, before the blanks that end the query.
SemicolonBeforeTrailingOnes ==
    \E i, j \in DOMAIN sql_query :
        /\ sql_query[i] = ";"
        /\ i < j
        /\ sql_query[j] # ";"
        /\ \E k \in j..Len(sql_query) : sql_query[k] # " "

\* C18: check_query allows a query if and only if the query holds no
\* blocked keyword as a whole word, no comment marker after the start of
\* the statement and no semicolon other than trailing ones; allowed is true
\* exactly when the violations are empty, and a keyword match gives
\* severity critical.
C18_AllowedIffNoViolation ==
    policy_result # NoPolicyResult =>
        /\ policy_result.allowed <=>
              (~KeywordAsWholeWord /\ ~CommentMarkerAfterStart
               /\ ~SemicolonBeforeTrailingOnes)
        /\ policy_result.allowed <=> policy_result.violations = {}
        /\ KeywordAsWholeWord => policy_result.severity = "critical"

\* C18 for the queries that do not begin with a comment marker.
C18_HoldsWithoutLeadingComment ==
    (policy_result # NoPolicyResult
     /\ (Strip(sql_query) = <<>> \/ Head(Strip(sql_query)) # "--"))
        => /\ policy_result.allowed <=>
                (~KeywordAsWholeWord /\ ~CommentMarkerAfterStart
                 /\ ~SemicolonBeforeTrailingOnes)
           /\ policy_result.allowed <=> policy_result.violations = {}
           /\ KeywordAsWholeWord => policy_result.severity = "critical"

\* A checked query with a keyword inside a longer word and trailing
\* semicolons only, which is allowed.
C18_Witness ==
    /\ policy_result # NoPolicyResult
    /\ policy_result.allowed
    /\ \E i \in DOMAIN sql_query : sql_query[i] = "Drop"
    /\ \E i \in DOMAIN sql_query : sql_query[i] = ";"

\* C19 as stated: "DROP TABLE users" is disallowed with severity critical
\* and "SELECT * FROM users; DROP TABLE users;" is disallowed with severity
\* high.
C19_DropCriticalSelectThenDropHigh ==
    policy_result # NoPolicyResult =>
        /\ sql_query = DropTableUsers =>
              ~policy_result.allowed /\ policy_result.severity = "critical"
        /\ sql_query = SelectThenDrop =>
              ~policy_result.allowed /\ policy_result.severity = "high"

\* C19 amended: both queries are disallowed with severity critical; the
\* second one has the violation of several statements next to the one of
\* the DROP keyword.
C19_BothDisallowedCritical ==
    policy_result # NoPolicyResult =>
        /\ sql_query = DropTableUsers =>
              /\ ~policy_result.allowed
              /\ policy_result.severity = "critical"
              /\ policy_result.violations = {<<"DDL operation blocked", "DROP">>}
        /\ sql_query = SelectThenDrop =>
              /\ ~policy_result.allowed
              /\ policy_result.severity = "critical"
              /\ policy_result.violations =
                    {<<"DDL operation blocked", "DROP">>,
                     <<"Multiple statements detected (potential injection)", "">>}

C19_Witness ==
    /\ sql_query = SelectThenDrop
    /\ policy_result # NoPolicyResult
    /\ policy_result.severity = "critical"

-----------------------------------------------------------------------------
(* Claims about the SandboxExecutor.                                       *)

\* The call returned a timeout: success = false, a timeout error and a
\* timeout violation, func cut short.
TimedOut ==
    /\ ~sandbox_result.success
    /\ sandbox_result.error = "Execution timeout"
    /\ TimeoutViolation \in sandbox_result.violations
    /\ elapsed < func.runtime

\* C20: a function that runs longer than quota.max_execution_seconds is
\* aborted and the result has success = false, a timeout error and a
\* timeout violation, for every positive quota, also below one second and
\* not a whole number of seconds.
C20_TimeoutAbortsForEveryQuota ==
    (sandbox_pc = "returned" /\ func.runtime > sandbox_quota) => TimedOut

\* C20 for the quotas of one second and more.
C20_HoldsFromOneSecond ==
    (sandbox_pc = "returned" /\ func.runtime > sandbox_quota /\ sandbox_quota >= 10)
        => TimedOut

\* A function aborted under a quota that is not a whole number of seconds.
C20_Witness ==
    /\ sandbox_pc = "returned"
    /\ func.runtime > sandbox_quota
    /\ sandbox_quota > 10
    /\ IntSeconds(sandbox_quota) # sandbox_quota
    /\ TimedOut

-----------------------------------------------------------------------------
(* Claims about the Actor's execution history.                             *)

\* C21, as stated: every attempt of execute_with_repair, failed or not, is
\* appended to the execution history, so a call that made n attempts leaves
\* the history n entries longer.
C21_EveryAttemptAppended ==
    [][calls_made' = calls_made + 1
        => Len(execution_history') = Len(execution_history) + invocations']_vars

\* C21, amended: only the last attempt of a call is appended. A call that
\* made n >= 1 attempts leaves the history one entry longer, and that
\* entry's retry_count is n - 1, the attempts that failed before it.
C21_LastAttemptAppended ==
    [][calls_made' = calls_made + 1
        => /\ invocations' >= 1
           /\ Len(execution_history') = Len(execution_history) + 1
           /\ execution_history'[Len(execution_history')].retry_count
                = invocations' - 1]_vars

\* C21 witness: a call that invoked the tool three times has returned, and
\* the history holds one entry for it.
C21_Witness ==
    /\ calls_made = 1 /\ invocations = 3
    /\ Len(execution_history) = 1
    /\ execution_history[1].retry_count = 2

\* C26: each call to execute_with_repair appends exactly one Observation,
\* the one it returns, and leaves the earlier entries as they were and
\* where they were; after m calls the history has m entries, in call order.
C26_OneObservationPerCall ==
    [][calls_made' = calls_made + 1
        => /\ execution_history' = Append(execution_history, returned')
           /\ Len(execution_history') = calls_made'
           /\ returned'.step_id = NthToolCall(calls_made').step_id]_vars

\* C26 witness: two calls were made, the first retried and succeeded, the
\* second failed, and the history holds their two Observations in call
\* order.
C26_Witness ==
    /\ calls_made = 2 /\ Len(execution_history) = 2
    /\ execution_history[1].step_id = "step-1"
    /\ execution_history[1].status = SUCCESS
    /\ execution_history[1].retry_count >= 1
    /\ execution_history[2].step_id = "step-2"
    /\ execution_history[2] = returned
    /\ returned.status = FAILURE

-----------------------------------------------------------------------------
(* Claims about execute_step: classification, grounding, the               *)
(* filter_before_aggregate invariant and the history.                      *)

\* The step of the last execute_step call.
LastStep == PoolStep(executed[Len(executed)])

\* The text the tool raised names a transient condition: it contains,
\* case-insensitively, one of the recoverable substrings.
TextNamesTransient(text) ==
    \E pattern \in recoverable_patterns : ContainsSeq(LowerText(text), pattern)

\* C22: a failed invocation is retried while attempts remain if and only if
\* the error text the tool raised contains, case-insensitively, one of
\* timeout, connection, temporary, rate limit, retry; an error whose text
\* contains none of them is never retried, whatever the exception's type.
C22_RetriedIffTextNamesTransient ==
    \A n \in 1..invocations :
        (n <= MAX_RETRIES /\ InvocationOutcome(tool_script, n).kind = "raise")
        => (invocations > n <=> TextNamesTransient(InvocationOutcome(tool_script, n).text))

\* C22 where it holds: an Exception with the text "Connection timeout" was
\* retried and the second invocation succeeded.
C22_Witness ==
    /\ executed # <<>> /\ invocations = 2
    /\ tool_script[1] = ConnectionTimeout
    /\ returned.status = SUCCESS /\ returned.retry_count = 1

\* The operation type grounding gives a step ("None" when it gives none).
OperationTypeOf(step) ==
    IF step.tool = DF_OPERATIONS
    THEN ArgGet(_extract_df_arguments(step), "operation_type")
    ELSE "None"

\* A step marked filter_before_aggregate that is an aggregate operation.
MarkedAggregate(step) ==
    /\ \E i \in DOMAIN step.invariants :
            Contains(step.invariants[i], "filter_before_aggregate")
    /\ OperationTypeOf(step) = "aggregate"

\* A declared dependency of the step was executed successfully by this Actor
\* as a filter operation: the history holds a SUCCESS Observation of it.
FilterDependencyExecuted(step, history) ==
    \E d \in DOMAIN step.dependencies, k \in DOMAIN history :
        /\ history[k].step_id = step.dependencies[d]
        /\ is_success(history[k])
        /\ OperationTypeOf(PoolStep(history[k].step_id)) = "filter"

\* The Observation reports the violated invariant.
RejectedForInvariant(obs) ==
    /\ obs.status = FAILURE
    /\ Contains(obs.error_message, "Invariant violation: ")

\* C23: when grounding a step fails, because its tool is not in the
\* registry or because its filter_before_aggregate invariant is violated,
\* execute_step returns a FAILURE Observation with retry_count 0, the tool
\* is not invoked for the step and nothing is retried.
C23_GroundingFailureNotExecuted ==
    [][Len(executed') = Len(executed) + 1
        => LET step == PoolStep(executed'[Len(executed')]) IN
           (\/ step.tool \notin tool_registry
            \/ MarkedAggregate(step) /\ ~FilterDependencyExecuted(step, execution_history))
           => /\ returned'.status = FAILURE
              /\ returned'.step_id = step.step_id
              /\ returned'.retry_count = 0
              /\ returned'.error_message[1] = "Grounding failed: "
              /\ invocations' = 0
              /\ tool_invocations' = tool_invocations
              /\ calls_made' = calls_made]_vars

\* C23 witness: the load was executed; then the aggregation that depends
\* on the load only was refused for its invariant and the plot step was
\* refused because the registry has no plotter: the tool calls made are
\* those of the load.
C23_Witness ==
    /\ executed = <<"s1", "s4", "s5">> /\ PLOTTER \notin tool_registry
    /\ Len(execution_history) = 1 /\ is_success(execution_history[1])
    /\ \A k \in DOMAIN tool_invocations : tool_invocations[k].step_id = "s1"
    /\ invocations = 0
    /\ returned.status = FAILURE /\ returned.retry_count = 0

\* C28: a step marked filter_before_aggregate that is an aggregate
\* operation passes invariant validation whenever one of its declared
\* dependencies was executed successfully by the same Actor as a filter
\* operation before; it is rejected only when no declared dependency has a
\* filter operation in the execution history.
C28_AggregateAfterFilterAccepted ==
    [][Len(executed') = Len(executed) + 1
        => LET step == PoolStep(executed'[Len(executed')]) IN
           (MarkedAggregate(step) /\ step.tool \in tool_registry)
           => (RejectedForInvariant(returned')
                <=> ~FilterDependencyExecuted(step, execution_history))]_vars

\* C28 where it holds: the aggregation that depends on the load only was
\* rejected after the load had been executed.
C28_Witness ==
    /\ Len(executed) = 2 /\ executed[1] = "s1" /\ executed[2] = "s4"
    /\ is_success(execution_history[1])
    /\ RejectedForInvariant(returned)

\* C29: every Observation execute_step returns, one that reports a
\* grounding failure included, is in the execution history when
\* execute_step returns, so total_executions of get_execution_summary is
\* the number of execute_step calls made so far.
C29_EveryReturnedObservationInHistory ==
    /\ executed # <<>> => \E k \in DOMAIN execution_history :
                             execution_history[k] = returned
    /\ get_execution_summary(execution_history).total_executions = Len(executed)

\* C29 where it holds: three steps were grounded and executed, one of them
\* failed in its tool, and the summary counts three executions.
C29_Witness ==
    /\ Len(executed) = 3
    /\ get_execution_summary(execution_history).total_executions = 3
    /\ get_execution_summary(execution_history).failures = 1

-----------------------------------------------------------------------------
(* Claim about the plan's total cost.                                      *)

\* The cost of the tool each step of a plan runs, added up step by step.
RECURSIVE CostOfFirst(_, _)
CostOfFirst(steps, k) ==
    IF k = 0 THEN 0 ELSE CostOfFirst(steps, k - 1) + steps[k].estimated_cost

\* C24: for an operation list in which every declared dependency id is
\* among the operation ids and the dependency graph is acyclic, build_plan
\* succeeds, and total_cost is the sum of estimated_cost over the steps,
\* for the plan build_plan returns and for every plan add_step returns
\* later.
C24_TotalCostIsSumOfStepCosts ==
    /\ (last_call = "build_plan"
            /\ (OperationMode => ~DeclaredUnknownDependency /\ ~DeclaredCycle))
        => (plan_error = "none" /\ ~plan.none
            /\ Len(plan.steps) = Len(operations))
    /\ ~plan.none
        => /\ plan.total_cost = CostOfFirst(plan.steps, Len(plan.steps))
           /\ \A k \in DOMAIN plan.steps :
                plan.steps[k].estimated_cost = TOOL_COSTS[plan.steps[k].tool]

\* C24 witness: a plan built from three operations, one of which depends on
\* an operation later in the list, was extended twice by add_step, and its
\* total cost counts the five steps.
C24_Witness ==
    /\ last_call = "add_step" /\ plan_error = "none" /\ uuid_count = 2
    /\ OperationMode /\ Len(operations) = 3 /\ Len(plan.steps) = 5
    /\ \E i, j \in DOMAIN operations :
            i < j /\ <<operations[i].id, operations[j].id>> \in DeclaredEdges
    /\ plan.total_cost = CostOfFirst(plan.steps, 3) + 2 * TOOL_COSTS[PLOTTER]

-----------------------------------------------------------------------------
(* Claim about concurrent writes to the recipe store.                      *)

\* The update_success_count calls on a recipe that have returned.
CompletedOn(recipe_id) ==
    {w \in Writers : connections[w].pc = "closed" /\ connections[w].recipe_id = recipe_id}

\* C25: concurrent writes to the recipe store lose no update: after n
\* update_success_count calls on a recipe have completed, in any
\* interleaving, its success_count is n higher than before (1, as saved),
\* and no other recipe's success_count has changed.
C25_NoLostUpdate ==
    \A i \in DOMAIN recipe_store :
        recipe_store[i].success_count
            = 1 + Cardinality(CompletedOn(recipe_store[i].recipe_id))

\* C25 witness: three calls overlapped. Two of them, on the same recipe,
\* completed, the one that entered first committing last; the third found
\* the database locked and raised; the recipe's count is 3 and the other
\* recipe's is still 1.
C25_Witness ==
    /\ \E v, w \in Writers :
            /\ v \in CompletedOn(Uuid4(1)) /\ w \in CompletedOn(Uuid4(1))
            /\ connections[v].now < connections[w].now
            /\ connections[v].seq > connections[w].seq
    /\ \E w \in Writers : connections[w].pc = "raised"
    /\ recipe_store[1].success_count = 3
    /\ recipe_store[2].success_count = 1

-----------------------------------------------------------------------------
(* Claim about entries removed from the log.                               *)

\* C27: removing stored entries from a valid non-empty log is detected:
\* after an entry was deleted from the beginning or the middle, or one or
\* more entries were cut off the end, verify_chain returns false.
C27_RemovalDetected ==
    (tampering.done /\ tampering.field \in {"deleted", "truncated"}
        /\ verify_result # NotVerified)
    => ~verify_result.valid

\* The part of C27 the code keeps: a deleted entry that was not the last
\* one is reported as a chain break at the line that took its place.
C27_DeletionDetected ==
    (tampering.done /\ tampering.field = "deleted" /\ verify_result # NotVerified)
    => verify_result = ChainBreak(tampering.position - 1, tampering.position)

\* C27 witness: the middle entry of a log of three was deleted and
\* verify_chain ran and reported the break at line 2.
C27_Witness ==
    /\ tampering.done /\ tampering.field = "deleted" /\ tampering.position = 2
    /\ Len(log_file) = 2
    /\ verify_result = ChainBreak(1, 2)

\* Where C27 fails: the last entry of a log of three was cut off and
\* verify_chain returned (True, None) on the two that are left.
C27_TruncationAccepted ==
    /\ tampering.done /\ tampering.field = "truncated" /\ tampering.position = 3
    /\ Len(log_file) = 2
    /\ verify_result = ChainValid

-----------------------------------------------------------------------------
(* Claim about get_request_trace.                                          *)

\* The entries written while request r was handled, in log order.
WrittenFor(r) ==
    LET Belongs(entry) ==
            \E i \in DOMAIN log_file : log_file[i] = entry /\ written_for[i] = r
    IN SelectSeq(log_file, Belongs)

\* C30: get_request_trace(request_id) returns every audit entry that was
\* written for that request, its observation and error entries included,
\* in log order, and no entry written for another request.
C30_TraceIsTheRequestsEntries ==
    request_trace # NoTrace
    => request_trace.entries = WrittenFor(request_trace.request_id)

\* What get_request_trace does return: the entries whose entry_id begins
\* with the request id, in log order.
C30_TraceIsThePrefixMatches ==
    request_trace # NoTrace
    => request_trace.entries
        = SelectSeq(log_file,
                    LAMBDA entry : startswith(entry.entry_id, request_trace.request_id))

\* C30 witness: both requests were handled, "req-10" without a step, and
\* the trace of "req-10" is its request, plan and completion entries, none
\* of the entries of "req-1".
C30_Witness ==
    /\ request_trace.request_id = "req-10"
    /\ trace_pc = [r \in TraceRequestIds |-> "done"]
    /\ Len(request_trace.entries) = 3
    /\ request_trace.entries = WrittenFor("req-10")
    /\ Len(WrittenFor("req-1")) >= 3

\* Where C30 fails: the trace of "req-1" lacks the observation entry
\* written for it and holds the entries of "req-10".
C30_ObservationMissingOthersIncluded ==
    /\ request_trace.request_id = "req-1"
    /\ \E i \in DOMAIN log_file :
            /\ written_for[i] = "req-1"
            /\ log_file[i].event_type = OBSERVATION_RECORDED
            /\ \A j \in DOMAIN request_trace.entries :
                    request_trace.entries[j] # log_file[i]
    /\ \E i \in DOMAIN log_file :
            /\ written_for[i] = "req-10"
            /\ \E j \in DOMAIN request_trace.entries :
                    request_trace.entries[j] = log_file[i]

====
